---- MODULE Spec2Model ----
(***************************************************************************)
(* A model of news-please's orchestration layer.                           *)
(*                                                                         *)
(*   - NewsPleaseLauncher (newsplease/run.py): the pool of one-shot        *)
(*     crawler threads over CrawlerList, the daemonized crawler threads    *)
(*     over DaemonList, and graceful_stop.                                 *)
(*   - CommonCrawlExtractor / CommonCrawler (newsplease/crawler): the      *)
(*     download / extract / checkpoint run over one WARC archive and the   *)
(*     orchestrator that skips archives found in the checkpoint log.       *)
(*                                                                         *)
(* Time is counted in whole seconds: add_execution truncates with int(),   *)
(* intervals are whole numbers, so floor(time.time()) decides every        *)
(* comparison the code makes.  Site indices are 1-based here (0-based in   *)
(* the code).                                                              *)
(***************************************************************************)
EXTENDS Integers, Sequences, FiniteSets, TLC

\* ------------------------------------------------------------------ bounds
\* number of site objects of the input file
MaxSites == 2
\* last second the clock reaches
MaxTime == 2
\* number of DaemonList.get_next_item pops in one run
MaxPops == 4
\* number of one-shot sites in a run of the crawler pool alone
MaxItems == 3
\* number of stop signals the OS delivers
MaxSignals == 2

\* number of records iterated in one archive
MaxRecords == 2
\* number of extraction runs (extract_from_commoncrawl calls)
MaxRuns == 2

\* repetition times a site may configure ("daemonize": seconds)
Intervals == {0, 1, 2}

\* threads the configuration may ask for (number_of_parallel_crawlers,
\* number_of_parallel_daemons); thread k is started when k <= the number
\* manage_crawlers computes
Workers == {1, 2}
DaemonThreads == {1, 2}

\* Python's None, as the value of an index (site indices start at 1 here)
None == 0
\* the initial value of manage_crawler's local: index = True
PyTrue == 1
\* Python's None, as the value of manage_daemon's item
NoneItem == <<>>
\* no thread holds the lock
Free == 0

\* WARC archives (their download URLs), host names, days
Urls == {"w1", "w2"}
Hosts == {"h1", "h2"}
Days == 1..5
\* Python's None, as the value of a date
NoDate == 0

VARIABLES
    sites,              \* json.get_site_objects(): the site objects, in order
    cfg_crawlers,       \* cfg "number_of_parallel_crawlers"
    cfg_daemons,        \* cfg "number_of_parallel_daemons"
    mpc,                \* the main thread's position in manage_crawlers
    site_i,             \* manage_crawlers: sites registered so far
    num_threads,        \* crawler threads started
    num_daemons,        \* daemon threads started
    crawler_list,       \* CrawlerList.crawler_list
    cl_lock,            \* CrawlerList.lock: its holder, or Free
    cl_stop,            \* CrawlerList.graceful_stop
    daemons,            \* DaemonList.daemons: index -> repetition time
    queue,              \* DaemonList.queue: tuples (time, index)
    queue_times,        \* DaemonList.queue_times
    dl_lock,            \* DaemonList.lock: its holder, or Free
    dl_stop,            \* DaemonList.graceful_stop
    shutdown,           \* NewsPleaseLauncher.shutdown
    thread_event,       \* NewsPleaseLauncher.thread_event is set
    active,             \* NewsPleaseLauncher.number_of_active_crawlers
    now,                \* floor(time.time())
    wpc,                \* crawler thread -> position in manage_crawler
    windex,             \* crawler thread -> its local index
    wtmp,               \* crawler thread -> the value read by += / -=
    dpc,                \* daemon thread -> position in manage_daemon
    ditem,              \* daemon thread -> its local item
    stop_pc,            \* graceful_stop: next statement, 0 when not running
    stop_by,            \* who called the running graceful_stop
    signals,            \* stop signals delivered so far
    claimed,            \* history: the items CrawlerList.get_next_item returned
    started,            \* history: the one-shot jobs started, in order
    popLog,             \* history: entries DaemonList.get_next_item returned
    maxDispatched,      \* history: the largest timestamp dispatched so far
    inOrder,            \* history: no entry was dispatched after a later one
    failed,             \* history: the jobs whose process ended with an error
    log,                \* the lines of the log file of fully extracted WARC URLs
    log_exists,         \* the log file exists
    x_cfg,              \* CommonCrawlExtractor: extract_from_commoncrawl's arguments
    x_url,              \* CommonCrawlExtractor.__warc_download_url
    x_pc,               \* CommonCrawlExtractor: position in __run
    x_file,             \* the local WARC files that exist, by URL
    x_n,                \* records iterated so far
    x_count,            \* article_total, article_passed, article_discarded, article_error
    x_runs,             \* history: runs started
    x_appended,         \* history: this run has written the URL to the log
    x_delivered,        \* history: this run's callback_on_article_extracted calls
    x_completed,        \* history: this run's callback_on_warc_completed calls
    x_rec,              \* history: the record the loop body processed last
    c_cfg,              \* CommonCrawler: valid_hosts, start_date, end_date, process_num
    c_index,            \* the URLs of the names get_remote_index returns
    c_pc,               \* CommonCrawler: position in crawl
    c_urls,             \* crawl: urls
    c_handed,           \* history: the URLs handed to pool.map
    c_run,              \* URL -> position of run(url) in its pool process
    c_count,            \* URL -> total, passed, discarded of process_warc_file
    c_n,                \* URL -> records iterated so far
    c_file,             \* the local WARC files that exist, by URL
    c_saved             \* history: URL -> the records process_article has saved

cfgVars == <<sites, cfg_crawlers, cfg_daemons>>
mainVars == <<mpc, site_i, num_threads, num_daemons>>
clVars == <<crawler_list, cl_lock, cl_stop>>
dlVars == <<daemons, queue, queue_times, dl_lock, dl_stop>>
flagVars == <<shutdown, thread_event>>
workerVars == <<wpc, windex, wtmp, active, claimed, started>>
daemonVars == <<dpc, ditem, popLog, maxDispatched, inOrder>>
stopVars == <<stop_pc, stop_by, signals>>
launcherVars == <<cfgVars, mainVars, clVars, dlVars, flagVars, workerVars, daemonVars,
                  stopVars, now, failed>>
logVars == <<log, log_exists>>
extractVars == <<x_cfg, x_url, x_pc, x_file, x_n, x_count, x_runs, x_appended,
                 x_delivered, x_completed, x_rec>>
crawlVars == <<c_cfg, c_index, c_pc, c_urls, c_handed, c_run, c_count, c_n, c_file,
               c_saved>>
vars == <<launcherVars, logVars, extractVars, crawlVars,
                   failed>>

\* ----------------------------------------------------------------- helpers
Max(a, b) == IF a >= b THEN a ELSE b
Min(a, b) == IF a <= b THEN a ELSE b
Range(s) == {s[i] : i \in 1..Len(s)}

\* x in list
InList(x, s) == \E i \in 1..Len(s) : s[i] = x

\* a pop that leaves the item in the list
PopRestKeepsItem(s) == s

\* a pop that empties the list
PopRestEmpties(s) == <<>>

\* list.pop(0): the list that is left
PopRest(s) == Tail(s)

EntryTime(e) == e[1]
EntryJob(e) == e[2]

\* insert entry x into the sorted queue s after every entry whose time is <= x's
RECURSIVE InsertEntry(_, _)
InsertEntry(x, s) ==
    IF s = <<>> THEN <<x>>
    ELSE IF EntryTime(Head(s)) <= EntryTime(x) THEN <<Head(s)>> \o InsertEntry(x, Tail(s))
    ELSE <<x>> \o s

\* a sort_queue that leaves the queue as it is
SortQueueSkipped(q) == q

\* DaemonList.sort_queue: sorted(self.queue, key=lambda t: t[0]), a stable sort
RECURSIVE SortQueue(_)
SortQueue(q) ==
    IF q = <<>> THEN <<>>
    ELSE InsertEntry(q[Len(q)], SortQueue(SubSeq(q, 1, Len(q) - 1)))

RECURSIVE InsertTime(_, _)
InsertTime(x, s) ==
    IF s = <<>> THEN <<x>>
    ELSE IF Head(s) <= x THEN <<Head(s)>> \o InsertTime(x, Tail(s))
    ELSE <<x>> \o s

\* DaemonList.sort_queue: sorted(self.queue_times)
RECURSIVE SortTimes(_)
SortTimes(qt) ==
    IF qt = <<>> THEN <<>>
    ELSE InsertTime(qt[Len(qt)], SortTimes(SubSeq(qt, 1, Len(qt) - 1)))

\* an add_execution without the search for a free slot
FreeSlotNoShift(t, qt) == t

\* DaemonList.add_execution: the slot found by "while _time in queue_times"
RECURSIVE FreeSlot(_, _)
FreeSlot(t, qt) == IF InList(t, qt) THEN FreeSlot(t + 1, qt) ELSE t

\* an add_execution that queues the execution at the time it was asked for
AddExecutionQueueUnshifted(q, qt, t, index) == Append(q, <<t, index>>)

\* an add_execution that notes the time it was asked for
AddExecutionTimesAsked(qt, t) == Append(qt, t)

\* DaemonList.add_execution: the new queue_times and queue
AddExecutionTimes(qt, t) == Append(qt, FreeSlot(t, qt))
AddExecutionQueue(q, qt, t, index) == Append(q, <<FreeSlot(t, qt), index>>)

\* a re-arming that leaves out the repetition time
RearmTimeNoInterval(prev_time, cur, interval) == Max(prev_time, cur)

\* a re-arming one second before the time of the entry popped
RearmTimeEarlier(prev_time, cur, interval) == prev_time - 1

\* a re-arming from the due time alone
RearmTimeFromDue(prev_time, cur, interval) == prev_time + interval

\* DaemonList.get_next_item: the time handed to add_execution
RearmTime(prev_time, cur, interval) == Max(prev_time, cur) + interval

\* a graceful_stop that sets the event before the flags
StopOrderEventFirst == <<"thread_event", "shutdown", "crawler_list", "daemon_list">>

\* the statements of graceful_stop, in program order
StopOrder == <<"shutdown", "crawler_list", "daemon_list", "thread_event">>

\* ---------------------------------------------------- CommonCrawlExtractor
\* a WARC record, as far as the extractor looks at it: its WARC-Type, the
\* host of its WARC-Target-URI, the other host names that occur in that URI,
\* the pub_date NewsPlease.from_warc finds, whether from_warc raises, and
\* whether callback_on_article_extracted raises for its article
Records ==
    [type : {"response", "request"}, host : Hosts, mentions : {{}, {"h1"}},
     pub_date : {NoDate} \cup 1..4, extract_fails : BOOLEAN, callback_fails : BOOLEAN]

\* the arguments of extract_from_commoncrawl
ExtractConfigs ==
    [valid_hosts : {{}, {"h1"}}, start_date : {NoDate, 2}, end_date : {NoDate, 3},
     strict_date : BOOLEAN, continue_after_error : BOOLEAN,
     delete_warc_after_extraction : BOOLEAN,
     callback_on_warc_completed : {"None", "returns", "raises"}]

ZeroCount == [total |-> 0, passed |-> 0, discarded |-> 0, error |-> 0]

\* valid_host in url, for some valid_host
HostInUrl(rec, hosts) == \E h \in hosts : h = rec.host \/ h \in rec.mentions

\* __filter_record: whether the date filter asks NewsPlease.from_warc for the article
FilterExtracts(rec, cfg) ==
    /\ cfg.valid_hosts # {} => HostInUrl(rec, cfg.valid_hosts)
    /\ cfg.start_date # NoDate \/ cfg.end_date # NoDate

\* a filter that discards every article without a date
NoDateVerdictDiscard(strict_date) == FALSE

\* __filter_record: if not article.pub_date: if self.__filter_strict_date:
\* return False; else the record goes on to "return True"
NoDateVerdict(strict_date) == ~strict_date

\* __filter_record: the first element of its result (when from_warc does not raise)
FilterRecord(rec, cfg) ==
    IF cfg.valid_hosts # {} /\ ~HostInUrl(rec, cfg.valid_hosts) THEN FALSE
    ELSE IF cfg.start_date # NoDate \/ cfg.end_date # NoDate
    THEN IF rec.pub_date = NoDate THEN NoDateVerdict(cfg.strict_date)
         ELSE IF cfg.start_date # NoDate /\ rec.pub_date < cfg.start_date THEN FALSE
         ELSE IF cfg.end_date # NoDate /\ rec.pub_date > cfg.end_date THEN FALSE
         ELSE TRUE
    ELSE TRUE

\* an except clause that goes on whatever the flag says
ExceptClauseSwallows(cfg, cc, called) ==
    [count |-> [cc EXCEPT !.error = @ + 1], delivered |-> called, raised |-> FALSE]

\* __process_warc_gz_file: the except clause of the loop body, entered with
\* the counters cc, after callback_on_article_extracted was called or not
ExceptClause(cfg, cc, called) ==
    IF cfg.continue_after_error
    THEN [count |-> [cc EXCEPT !.error = @ + 1], delivered |-> called, raised |-> FALSE]
    ELSE [count |-> cc, delivered |-> called, raised |-> TRUE]

\* a loop body that extracts the article whether it has one or not
NeedsExtractionAlways(has_article) == TRUE

\* __process_warc_gz_file: "if not article", after __filter_record has
\* returned True and the article the date tests asked for, or None
NeedsExtraction(has_article) == ~has_article

\* the calls of NewsPlease.from_warc for one response record: one in
\* __filter_record when a date is configured and the host test passes, one in
\* the loop body when the filter passes and has returned no article
Extractions(rec, cfg) ==
    LET in_filter == IF FilterExtracts(rec, cfg) THEN 1 ELSE 0
        filter_passes == /\ ~(FilterExtracts(rec, cfg) /\ rec.extract_fails)
                         /\ FilterRecord(rec, cfg)
        in_body == IF filter_passes /\ NeedsExtraction(FilterExtracts(rec, cfg))
                   THEN 1 ELSE 0
    IN  in_filter + in_body

\* __process_warc_gz_file: the body of the loop for one record. The result:
\* the counters, whether callback_on_article_extracted was called, and
\* whether the exception of the record leaves the loop.
ProcessRecord(rec, cfg, c) ==
    IF rec.type # "response" THEN [count |-> c, delivered |-> FALSE, raised |-> FALSE]
    ELSE LET c1 == [c EXCEPT !.total = @ + 1]
             Caught(cc, called) == ExceptClause(cfg, cc, called)
         IN  IF FilterExtracts(rec, cfg) /\ rec.extract_fails THEN Caught(c1, FALSE)
             ELSE IF ~FilterRecord(rec, cfg)
             THEN [count |-> [c1 EXCEPT !.discarded = @ + 1], delivered |-> FALSE,
                   raised |-> FALSE]
             ELSE IF NeedsExtraction(FilterExtracts(rec, cfg)) /\ rec.extract_fails
             THEN Caught(c1, FALSE)
             ELSE LET c2 == [c1 EXCEPT !.passed = @ + 1]
                  IN  IF rec.callback_fails THEN Caught(c2, TRUE)
                      ELSE [count |-> c2, delivered |-> TRUE, raised |-> FALSE]

\* the defaults of extract_from_commoncrawl's arguments
DefaultExtractConfig ==
    [valid_hosts |-> {}, start_date |-> NoDate, end_date |-> NoDate,
     strict_date |-> TRUE, continue_after_error |-> TRUE,
     delete_warc_after_extraction |-> TRUE, callback_on_warc_completed |-> "None"]

\* no record has been processed
NoRecord == <<>>

\* no extraction has run yet
ExtractIdle(configs) ==
    /\ x_cfg \in configs
    /\ x_url = "none"
    /\ x_pc = "idle"
    /\ x_file = {}
    /\ x_n = 0
    /\ x_count = ZeroCount
    /\ x_runs = 0
    /\ x_appended = FALSE
    /\ x_delivered = <<>>
    /\ x_completed = <<>>
    /\ x_rec = NoRecord

\* extract_from_commoncrawl(warc_download_url, ...): __run, __setup
XStart(u) ==
    /\ x_pc \in {"idle", "completed", "error"}
    /\ x_runs < MaxRuns
    /\ x_url' = u
    /\ x_pc' = "download"
    /\ x_n' = 0
    /\ x_count' = ZeroCount
    /\ x_runs' = x_runs + 1
    /\ x_appended' = FALSE
    /\ x_delivered' = <<>>
    /\ x_completed' = <<>>
    /\ x_rec' = NoRecord
    /\ UNCHANGED <<launcherVars, logVars, x_cfg, x_file, crawlVars>>

\* a download that never looks for the local file
LocalFileIgnored(url, files) == FALSE

\* __download: os.path.isfile(local_filepath); the path is quote_plus(url)
\* in the download directory, one path for each URL
LocalFileFound(url, files) == url \in files

\* __download: the local file is used when there is one; else urlretrieve
\* fetches it, or raises
XDownload(fetched) ==
    /\ x_pc = "download"
    /\ IF LocalFileFound(x_url, x_file)
       THEN /\ fetched
            /\ x_pc' = "iterate"
            /\ UNCHANGED x_file
       ELSE IF fetched
       THEN /\ x_file' = x_file \cup {x_url}
            /\ x_pc' = "iterate"
       ELSE /\ x_pc' = "error"
            /\ UNCHANGED x_file
    /\ UNCHANGED <<launcherVars, logVars, x_cfg, x_url, x_n, x_count, x_runs, x_appended,
                   x_delivered, x_completed, x_rec, crawlVars>>

\* __process_warc_gz_file: one turn of "for record in ArchiveIterator(stream)",
\* but for the history of the record
\* a loop body that hands every article to the callback twice
CallbackLogTwice(delivered, called, n) ==
    IF called THEN delivered \o <<n, n>> ELSE delivered

\* __process_warc_gz_file: self.__callback_on_article_extracted(article), the
\* one call of the loop body; delivered lists the positions in the archive of
\* the records the callback was called for
CallbackLog(delivered, called, n) ==
    IF called THEN Append(delivered, n) ELSE delivered

ProcessNext(rec) ==
    /\ x_pc = "iterate"
    /\ x_n < MaxRecords
    /\ LET r == ProcessRecord(rec, x_cfg, x_count)
       IN  /\ x_count' = r.count
           /\ x_delivered' = CallbackLog(x_delivered, r.delivered, x_n + 1)
           /\ x_pc' = IF r.raised THEN "error" ELSE "iterate"
    /\ x_n' = x_n + 1
    /\ UNCHANGED <<launcherVars, logVars, x_cfg, x_url, x_file, x_runs, x_appended,
                   x_completed, crawlVars>>

\* one turn of the loop, the record not remembered
XRecord(rec) == ProcessNext(rec) /\ UNCHANGED x_rec

\* one turn of the loop, the record remembered
XRecordSeen(rec) == ProcessNext(rec) /\ x_rec' = rec

\* __process_warc_gz_file: ArchiveIterator raises while it reads the next
\* record; the for statement is outside the try block
XIteratorRaises ==
    /\ x_pc = "iterate"
    /\ x_n < MaxRecords
    /\ x_n' = x_n + 1
    /\ x_pc' = "error"
    /\ UNCHANGED <<launcherVars, logVars, x_cfg, x_url, x_file, x_count, x_runs,
                   x_appended, x_delivered, x_completed, x_rec, crawlVars>>

\* __process_warc_gz_file: the archive has no further record;
\* secs_per_article = (time.time() - start_time) / article_total raises
\* ZeroDivisionError when article_total is 0
XEndOfArchive ==
    /\ x_pc = "iterate"
    /\ x_pc' = IF x_count.total = 0 THEN "error" ELSE "cleanup"
    /\ x_rec' = NoRecord
    /\ UNCHANGED <<launcherVars, logVars, x_cfg, x_url, x_file, x_n, x_count, x_runs,
                   x_appended, x_delivered, x_completed, crawlVars>>

\* __process_warc_gz_file: if self.__delete_warc_after_extraction: os.remove
XCleanup ==
    /\ x_pc = "cleanup"
    /\ x_file' = IF x_cfg.delete_warc_after_extraction THEN x_file \ {x_url} ELSE x_file
    /\ x_pc' = "register"
    /\ UNCHANGED <<launcherVars, logVars, x_cfg, x_url, x_n, x_count, x_runs, x_appended,
                   x_delivered, x_completed, x_rec, crawlVars>>

\* a run that goes on to the callback when the log could not be written
AfterRegisterSwallows(written) == "callback"

\* __process_warc_gz_file: the call of __register_fully_extracted_warc_file
\* stands in no try block; when it raises, the exception leaves the run
AfterRegister(written) == IF written THEN "callback" ELSE "error"

\* __register_fully_extracted_warc_file: the URL is appended to the log file,
\* or open / write raises
XRegister(written) ==
    /\ x_pc = "register"
    /\ x_pc' = AfterRegister(written)
    /\ IF written
       THEN /\ log' = Append(log, x_url)
            /\ log_exists' = TRUE
            /\ x_appended' = TRUE
       ELSE UNCHANGED <<log, log_exists, x_appended>>
    /\ UNCHANGED <<launcherVars, x_cfg, x_url, x_file, x_n, x_count, x_runs, x_delivered,
                   x_completed, x_rec, crawlVars>>

\* arguments with the total in front
CompletedArgsTotalFirst(url, c) == <<url, c.total, c.passed, c.discarded, c.error>>

\* the arguments of the call of callback_on_warc_completed
CompletedArgs(url, c) == <<url, c.passed, c.discarded, c.error, c.total>>

\* __process_warc_gz_file: self.__callback_on_warc_completed(...). Calling
\* None (the default of extract_from_commoncrawl) raises TypeError.
XCompleted ==
    /\ x_pc = "callback"
    /\ IF x_cfg.callback_on_warc_completed = "returns"
       THEN /\ x_completed' = Append(x_completed,
                                     CompletedArgs(x_url, x_count))
            /\ x_pc' = "completed"
       ELSE /\ x_pc' = "error"
            /\ x_completed' = IF x_cfg.callback_on_warc_completed = "raises"
                              THEN Append(x_completed,
                                          CompletedArgs(x_url, x_count))
                              ELSE x_completed
    /\ UNCHANGED <<launcherVars, logVars, x_cfg, x_url, x_file, x_n, x_count, x_runs,
                   x_appended, x_delivered, x_rec, crawlVars>>

\* ------------------------------------------------------------ CommonCrawler
\* a WARC record, as far as CommonCrawler looks at it: its WARC-Type, the host
\* name of its WARC-Target-URI, the day of its warc-date, whether
\* NewsPlease.from_warc raises and whether process_article raises
CrawlRecords ==
    [type : {"response", "request"}, host : Hosts, warc_date : Days,
     extract_fails : BOOLEAN, save_fails : BOOLEAN]

\* the days of "2019-01-01" and "2099-01-01", the defaults __init__ sets
DefaultStartDay == 2
DefaultEndDay == 5

\* CommonCrawler.__init__: the bounds it keeps for the given arguments
CrawlConfig(hosts, start_date, end_date, process_num) ==
    [valid_hosts |-> hosts,
     start_date |-> IF start_date # NoDate THEN start_date ELSE DefaultStartDay,
     end_date |-> IF end_date # NoDate THEN end_date ELSE DefaultEndDay,
     process_num |-> process_num]

CrawlConfigs ==
    {CrawlConfig(h, s, e, n) : h \in {{}, {"h1"}}, s \in {NoDate, 3}, e \in {NoDate, 4},
                               n \in {1, 2}}

\* is_wanted_record. The dates are strings: a bound "YYYY-MM-DD" is below
\* every warc-date "YYYY-MM-DDThh:mm:ssZ" of its own day.
IsWantedRecord(rec, cfg) ==
    IF cfg.valid_hosts # {} /\ rec.host \notin cfg.valid_hosts THEN FALSE
    ELSE cfg.start_date <= rec.warc_date /\ rec.warc_date < cfg.end_date

\* the listings get_remote_index may return: no URL twice
Listings == {l \in UNION {[1..n -> Urls] : n \in 0..Cardinality(Urls)} :
               \A i, j \in 1..Len(l) : i # j => l[i] # l[j]}

\* the contents of the log file a crawl may find: the URLs of earlier runs
FoundLogs == UNION {[1..n -> Urls] : n \in 0..1}

\* the log file of the fully extracted WARC files, before the run
LogFile(exists, contents) ==
    /\ log_exists \in exists
    /\ log \in IF log_exists THEN contents ELSE {<<>>}

\* crawl has not been called
CrawlIdle(configs, listings) ==
    /\ c_cfg \in configs
    /\ c_index \in listings
    /\ c_pc = "start"
    /\ c_urls = <<>>
    /\ c_handed = <<>>
    /\ c_run = [u \in Urls |-> "none"]
    /\ c_count = [u \in Urls |-> [total |-> 0, passed |-> 0, discarded |-> 0]]
    /\ c_n = [u \in Urls |-> 0]
    /\ c_file = {}
    /\ c_saved = [u \in Urls |-> <<>>]

\* the elements of s that are not in the list skip, in order
RECURSIVE NotIn(_, _)
NotIn(s, skip) ==
    IF s = <<>> THEN <<>>
    ELSE IF InList(Head(s), skip) THEN NotIn(Tail(s), skip)
    ELSE <<Head(s)>> \o NotIn(Tail(s), skip)

\* crawl: get_remote_index, get_extracted_warc_urls and the loop that leaves
\* out the URLs of the log. With a log file, get_extracted_warc_urls opens
\* "extracted_warc_file", a name that is not defined: NameError.
CFilter ==
    /\ c_pc = "start"
    /\ IF log_exists
       THEN /\ c_pc' = "error"
            /\ UNCHANGED c_urls
       ELSE /\ c_urls' = NotIn(c_index, <<>>)
            /\ c_pc' = "pool"
    /\ UNCHANGED <<launcherVars, logVars, extractVars, c_cfg, c_index, c_handed, c_run,
                   c_count, c_n, c_file, c_saved>>

\* crawl: pool.map(self.run, urls)
CPoolMap ==
    /\ c_pc = "pool"
    /\ c_handed' = c_urls
    /\ c_run' = [u \in Urls |-> IF InList(u, c_urls) THEN "queued" ELSE c_run[u]]
    /\ c_pc' = "map"
    /\ UNCHANGED <<launcherVars, logVars, extractVars, c_cfg, c_index, c_urls, c_count,
                   c_n, c_file, c_saved>>

Running == {u \in Urls : c_run[u] \in {"download", "iterate"}}

\* a process of the pool takes the next URL
CRunStart(u) ==
    /\ c_pc = "map"
    /\ c_run[u] = "queued"
    /\ Cardinality(Running) < c_cfg.process_num
    /\ c_run' = [c_run EXCEPT ![u] = "download"]
    /\ UNCHANGED <<launcherVars, logVars, extractVars, c_cfg, c_index, c_pc, c_urls,
                   c_handed, c_count, c_n, c_file, c_saved>>

\* download_warc_file: the local file is used when there is one; else
\* urlretrieve fetches it, or raises
CDownload(u, fetched) ==
    /\ c_pc = "map"
    /\ c_run[u] = "download"
    /\ IF u \in c_file
       THEN /\ fetched
            /\ c_run' = [c_run EXCEPT ![u] = "iterate"]
            /\ UNCHANGED c_file
       ELSE IF fetched
       THEN /\ c_file' = c_file \cup {u}
            /\ c_run' = [c_run EXCEPT ![u] = "iterate"]
       ELSE /\ c_run' = [c_run EXCEPT ![u] = "raised"]
            /\ UNCHANGED c_file
    /\ UNCHANGED <<launcherVars, logVars, extractVars, c_cfg, c_index, c_pc, c_urls,
                   c_handed, c_count, c_n, c_saved>>

\* process_warc_file: one turn of "for record in ArchiveIterator(stream)";
\* an exception of from_warc or process_article is not caught
CRecord(u, rec) ==
    /\ c_pc = "map"
    /\ c_run[u] = "iterate"
    /\ c_n[u] < MaxRecords
    /\ c_n' = [c_n EXCEPT ![u] = @ + 1]
    /\ IF rec.type # "response"
       THEN UNCHANGED <<c_count, c_run, c_saved>>
       ELSE IF IsWantedRecord(rec, c_cfg)
       THEN /\ c_count' = [c_count EXCEPT ![u].total = @ + 1, ![u].passed = @ + 1]
            /\ c_run' = [c_run EXCEPT ![u] = IF rec.extract_fails \/ rec.save_fails
                                             THEN "raised" ELSE "iterate"]
            /\ c_saved' = [c_saved EXCEPT ![u] = IF rec.extract_fails \/ rec.save_fails
                                                 THEN @ ELSE Append(@, c_n[u] + 1)]
       ELSE /\ c_count' = [c_count EXCEPT ![u].total = @ + 1, ![u].discarded = @ + 1]
            /\ UNCHANGED <<c_run, c_saved>>
    /\ UNCHANGED <<launcherVars, logVars, extractVars, c_cfg, c_index, c_pc, c_urls,
                   c_handed, c_file>>

\* process_warc_file: the archive has no further record. The division by
\* total raises ZeroDivisionError when total is 0; else
\* self.downloaded_urls.append(self.url) raises AttributeError, as no
\* attribute url is ever set. The log file is not written.
CEndOfArchive(u) ==
    /\ c_pc = "map"
    /\ c_run[u] = "iterate"
    /\ c_run' = [c_run EXCEPT ![u] = "raised"]
    /\ UNCHANGED <<launcherVars, logVars, extractVars, c_cfg, c_index, c_pc, c_urls,
                   c_handed, c_count, c_n, c_file, c_saved>>

\* pool.map raises the exception of a run as soon as that run has ended, and
\* leaving "with Pool(...)" terminates the processes of the pool
CMapRaises ==
    /\ c_pc = "map"
    /\ \E u \in Urls : c_run[u] = "raised"
    /\ c_pc' = "error"
    /\ c_run' = [u \in Urls |-> IF c_run[u] \in {"queued", "download", "iterate"}
                                THEN "terminated" ELSE c_run[u]]
    /\ UNCHANGED <<launcherVars, logVars, extractVars, c_cfg, c_index, c_urls, c_handed,
                   c_count, c_n, c_file, c_saved>>

\* pool.map returns: there was no URL to run
CMapReturns ==
    /\ c_pc = "map"
    /\ c_handed = <<>>
    /\ c_pc' = "done"
    /\ UNCHANGED <<launcherVars, logVars, extractVars, c_cfg, c_index, c_urls, c_handed,
                   c_run, c_count, c_n, c_file, c_saved>>

\* ------------------------------------------------------------ configuration
OneShot == [kind : {"oneshot"}, time : {0}]
Daemonize == [kind : {"daemonize"}, time : Intervals]
RssDaemon == [kind : {"additional_rss_daemon"}, time : Intervals]

SiteLists(S, lo, hi) == UNION {[1..n -> S] : n \in lo..hi}

\* the launcher with its main thread at the position pc
LauncherInitAt(pc, lists, crawlers, schedulers) ==
    /\ sites \in lists
    /\ cfg_crawlers \in crawlers
    /\ cfg_daemons \in schedulers
    /\ mpc = pc
    /\ site_i = 0
    /\ num_threads = 0
    /\ num_daemons = 0
    /\ crawler_list = <<>>
    /\ cl_lock = Free
    /\ cl_stop = FALSE
    /\ daemons = <<>>
    /\ queue = <<>>
    /\ queue_times = <<>>
    /\ dl_lock = Free
    /\ dl_stop = FALSE
    /\ shutdown = FALSE
    /\ thread_event = FALSE
    /\ active = 0
    /\ now = 0
    /\ wpc = [w \in Workers |-> "idle"]
    /\ windex = [w \in Workers |-> PyTrue]
    /\ wtmp = [w \in Workers |-> 0]
    /\ dpc = [d \in DaemonThreads |-> "idle"]
    /\ ditem = [d \in DaemonThreads |-> NoneItem]
    /\ stop_pc = 0
    /\ stop_by = "nobody"
    /\ signals = 0
    /\ claimed = <<>>
    /\ started = <<>>
    /\ popLog = <<>>
    /\ maxDispatched = 0 - 1
    /\ inOrder = TRUE
    /\ failed = {}

\* __init__ has come to manage_crawlers: the state the registration starts in
LauncherInit(lists, crawlers, schedulers) ==
    LauncherInitAt("register", lists, crawlers, schedulers)

\* __init__: the objects graceful_stop works on. thread_event is None until
\* threading.Event() is assigned, crawler_list and daemon_list are None until
\* CrawlerList() and DaemonList() are, after the configuration was read.
StopTargetExists(target) ==
    CASE target = "shutdown" -> TRUE
      [] target = "thread_event" -> mpc # "handlers_set"
      [] OTHER -> mpc \notin {"handlers_set", "event_made"}

\* a release that leaves the lock with its holder
AfterReleaseStillHeld(holder) == holder

\* finally: self.lock.release()
AfterRelease(holder) == Free

\* an acquire that does not wait for the lock
UnlockedAlways(lock) == TRUE

\* threading.Lock.acquire() returns when the lock is unlocked
Unlocked(lock) == lock = Free

\* no graceful_stop called by a signal handler is running: the handler runs in
\* the main thread, which goes on only when the handler has returned
MainRuns == stop_pc = 0

\* __init__: self.thread_event = threading.Event(), after set_stop_handler
MakeEvent ==
    /\ mpc = "handlers_set" /\ MainRuns
    /\ mpc' = "event_made"
    /\ UNCHANGED <<cfgVars, site_i, num_threads, num_daemons, clVars, dlVars, flagVars,
                   workerVars, daemonVars, stopVars, now, logVars, extractVars, crawlVars,
                   failed>>

\* __init__: the configuration is read; self.crawler_list = self.CrawlerList();
\* self.daemon_list = self.DaemonList(); self.manage_crawlers()
MakeLists ==
    /\ mpc = "event_made" /\ MainRuns
    /\ mpc' = "register"
    /\ UNCHANGED <<cfgVars, site_i, num_threads, num_daemons, clVars, dlVars, flagVars,
                   workerVars, daemonVars, stopVars, now, logVars, extractVars, crawlVars,
                   failed>>

\* ------------------------------------------------------- manage_crawlers
\* "daemonize" in site
RegisterDaemon ==
    /\ mpc = "register" /\ MainRuns
    /\ site_i < Len(sites)
    /\ sites[site_i + 1].kind = "daemonize"
    /\ dl_lock = Free
    /\ daemons' = [i \in DOMAIN daemons \cup {site_i + 1} |->
                     IF i = site_i + 1 THEN sites[i].time ELSE daemons[i]]
    /\ queue_times' = AddExecutionTimes(queue_times, now)
    /\ queue' = AddExecutionQueue(queue, queue_times, now, site_i + 1)
    /\ site_i' = site_i + 1
    /\ UNCHANGED <<cfgVars, mpc, num_threads, num_daemons, clVars, dl_lock, dl_stop,
                   flagVars, workerVars, daemonVars, stopVars, now, logVars, extractVars, crawlVars,
                   failed>>

\* "additional_rss_daemon" in site
RegisterRssDaemon ==
    /\ mpc = "register" /\ MainRuns
    /\ site_i < Len(sites)
    /\ sites[site_i + 1].kind = "additional_rss_daemon"
    /\ dl_lock = Free /\ cl_lock = Free
    /\ daemons' = [i \in DOMAIN daemons \cup {site_i + 1} |->
                     IF i = site_i + 1 THEN sites[i].time ELSE daemons[i]]
    /\ queue_times' = AddExecutionTimes(queue_times, now)
    /\ queue' = AddExecutionQueue(queue, queue_times, now, site_i + 1)
    /\ crawler_list' = Append(crawler_list, site_i + 1)
    /\ site_i' = site_i + 1
    /\ UNCHANGED <<cfgVars, mpc, num_threads, num_daemons, cl_lock, cl_stop, dl_lock,
                   dl_stop, flagVars, workerVars, daemonVars, stopVars, now, logVars, extractVars, crawlVars,
                   failed>>

\* any other site: a one-shot crawler
RegisterOneShot ==
    /\ mpc = "register" /\ MainRuns
    /\ site_i < Len(sites)
    /\ sites[site_i + 1].kind = "oneshot"
    /\ cl_lock = Free
    /\ crawler_list' = Append(crawler_list, site_i + 1)
    /\ site_i' = site_i + 1
    /\ UNCHANGED <<cfgVars, mpc, num_threads, num_daemons, cl_lock, cl_stop, dlVars,
                   flagVars, workerVars, daemonVars, stopVars, now, logVars, extractVars, crawlVars,
                   failed>>

\* one thread for every job, whatever the configured number
ThreadCountPerJob(configured, jobs) == jobs

\* manage_crawlers: the configured number of threads, or the length of the
\* list when that is less
ThreadCount(configured, jobs) == Min(configured, jobs)

\* the crawler threads are created and started
StartCrawlers ==
    /\ mpc = "register" /\ MainRuns
    /\ site_i = Len(sites)
    /\ num_threads' = ThreadCount(cfg_crawlers, Len(crawler_list))
    /\ wpc' = [w \in Workers |-> IF w <= num_threads' THEN "inc_read" ELSE wpc[w]]
    /\ mpc' = "start_daemons"
    /\ UNCHANGED <<cfgVars, site_i, num_daemons, clVars, dlVars, flagVars, windex, wtmp,
                   active, claimed, started, daemonVars, stopVars, now, logVars, extractVars, crawlVars,
                   failed>>

\* the daemon threads are created and started
StartDaemons ==
    /\ mpc = "start_daemons" /\ MainRuns
    /\ num_daemons' = ThreadCount(cfg_daemons, Cardinality(DOMAIN daemons))
    /\ dpc' = [d \in DaemonThreads |-> IF d <= num_daemons' THEN "loop" ELSE dpc[d]]
    /\ mpc' = "loop"
    /\ UNCHANGED <<cfgVars, site_i, num_threads, clVars, dlVars, flagVars, workerVars,
                   ditem, popLog, maxDispatched, inOrder, stopVars, now, logVars, extractVars, crawlVars,
                   failed>>

\* while not self.shutdown: sleep; stop by itself when nothing is left to do
MainLoop ==
    /\ mpc = "loop" /\ MainRuns
    /\ IF shutdown
       THEN /\ mpc' = "done"
            /\ UNCHANGED stopVars
       ELSE /\ Cardinality(DOMAIN daemons) = 0 /\ active = 0
            /\ mpc' = "stopping"
            /\ stop_pc' = 1
            /\ stop_by' = "main"
            /\ UNCHANGED signals
    /\ UNCHANGED <<cfgVars, site_i, num_threads, num_daemons, clVars, dlVars, flagVars,
                   workerVars, daemonVars, now, logVars, extractVars, crawlVars,
                   failed>>

\* ---------------------------------------------------------- graceful_stop
\* SIGTERM, SIGABRT or SIGINT: the handler starts in the main thread
Signal ==
    /\ stop_pc = 0
    /\ signals < MaxSignals
    /\ mpc \notin {"done", "raised"}
    /\ stop_pc' = 1
    /\ stop_by' = "signal"
    /\ signals' = signals + 1
    /\ UNCHANGED <<cfgVars, mainVars, clVars, dlVars, flagVars, workerVars, daemonVars,
                   now, logVars, extractVars, crawlVars,
                   failed>>

\* a stop that flips the flag it finds
StopFlagFlipped(flag) == ~flag

\* self.shutdown = True; self.graceful_stop = True; thread_event.set()
StopFlag(flag) == TRUE

\* one statement of graceful_stop
StopStep ==
    /\ stop_pc \in 1..Len(StopOrder)
    /\ StopTargetExists(StopOrder[stop_pc])
    /\ shutdown' = IF StopOrder[stop_pc] = "shutdown" THEN StopFlag(shutdown) ELSE shutdown
    /\ cl_stop' = IF StopOrder[stop_pc] = "crawler_list" THEN StopFlag(cl_stop) ELSE cl_stop
    /\ dl_stop' = IF StopOrder[stop_pc] = "daemon_list" THEN StopFlag(dl_stop) ELSE dl_stop
    /\ thread_event' = IF StopOrder[stop_pc] = "thread_event" THEN StopFlag(thread_event)
                       ELSE thread_event
    /\ stop_pc' = IF stop_pc = Len(StopOrder) THEN 0 ELSE stop_pc + 1
    /\ mpc' = IF stop_pc = Len(StopOrder) /\ stop_by = "main" THEN "done" ELSE mpc
    /\ UNCHANGED <<cfgVars, site_i, num_threads, num_daemons, crawler_list, cl_lock,
                   daemons, queue, queue_times, dl_lock, workerVars, daemonVars, stop_by,
                   signals, now, logVars, extractVars, crawlVars,
                   failed>>

\* graceful_stop has run to its end at least once
StopCompleted == thread_event

\* graceful_stop: self.crawler_list.stop(), self.daemon_list.stop() or
\* self.thread_event.set() on None raises AttributeError; the handler runs in
\* the main thread, and the exception leaves __init__
StopRaises ==
    /\ stop_pc \in 1..Len(StopOrder)
    /\ ~StopTargetExists(StopOrder[stop_pc])
    /\ stop_pc' = 0
    /\ mpc' = "raised"
    /\ UNCHANGED <<cfgVars, site_i, num_threads, num_daemons, clVars, dlVars, flagVars,
                   workerVars, daemonVars, stop_by, signals, now, logVars, extractVars,
                   crawlVars, failed>>

\* ------------------------------------------------------------------ clock
Tick ==
    /\ now < MaxTime
    /\ now' = now + 1
    /\ UNCHANGED <<cfgVars, mainVars, clVars, dlVars, flagVars, workerVars, daemonVars,
                   stopVars, logVars, extractVars, crawlVars,
                   failed>>

\* ---------------------------------------------------------- manage_crawler
\* self.number_of_active_crawlers += 1: the read
WIncRead(w) ==
    /\ wpc[w] = "inc_read"
    /\ wtmp' = [wtmp EXCEPT ![w] = active]
    /\ wpc' = [wpc EXCEPT ![w] = "inc_write"]
    /\ UNCHANGED <<cfgVars, mainVars, clVars, dlVars, flagVars, windex, active, claimed,
                   started, daemonVars, stopVars, now, logVars, extractVars, crawlVars,
                   failed>>

\* self.number_of_active_crawlers += 1: the write
WIncWrite(w) ==
    /\ wpc[w] = "inc_write"
    /\ active' = wtmp[w] + 1
    /\ wpc' = [wpc EXCEPT ![w] = "loop"]
    /\ UNCHANGED <<cfgVars, mainVars, clVars, dlVars, flagVars, windex, wtmp, claimed,
                   started, daemonVars, stopVars, now, logVars, extractVars, crawlVars,
                   failed>>

\* a loop condition with "is None" for "is not None"
CrawlerLoopConditionIsNone(sd, index) == ~sd /\ index = None

\* manage_crawler: not self.shutdown and index is not None
CrawlerLoopCondition(sd, index) == ~sd /\ index # None

\* while not self.shutdown and index is not None
WLoop(w) ==
    /\ wpc[w] = "loop"
    /\ wpc' = [wpc EXCEPT ![w] = IF CrawlerLoopCondition(shutdown, windex[w])
                                 THEN "get_next_item" ELSE "done"]
    /\ UNCHANGED <<cfgVars, mainVars, clVars, dlVars, flagVars, windex, wtmp, active,
                   claimed, started, daemonVars, stopVars, now, logVars, extractVars, crawlVars,
                   failed>>

\* CrawlerList.get_next_item: if self.graceful_stop: return None
WGetCheck(w) ==
    /\ wpc[w] = "get_next_item"
    /\ IF cl_stop
       THEN /\ windex' = [windex EXCEPT ![w] = None]
            /\ wpc' = [wpc EXCEPT ![w] = "got"]
       ELSE /\ wpc' = [wpc EXCEPT ![w] = "acquire"]
            /\ UNCHANGED windex
    /\ UNCHANGED <<cfgVars, mainVars, clVars, dlVars, flagVars, wtmp, active, claimed,
                   started, daemonVars, stopVars, now, logVars, extractVars, crawlVars,
                   failed>>

\* CrawlerList.get_next_item: self.lock.acquire()
WAcquire(w) ==
    /\ wpc[w] = "acquire"
    /\ Unlocked(cl_lock)
    /\ cl_lock' = w
    /\ wpc' = [wpc EXCEPT ![w] = "pop"]
    /\ UNCHANGED <<cfgVars, mainVars, crawler_list, cl_stop, dlVars, flagVars, windex,
                   wtmp, active, claimed, started, daemonVars, stopVars, now, logVars, extractVars, crawlVars,
                   failed>>

\* a pop that returns the item appended last
PopItemLast(s) == s[Len(s)]

\* CrawlerList.get_next_item: the item self.crawler_list.pop(0) returns
PopItem(s) == Head(s)

\* CrawlerList.get_next_item: item = self.crawler_list.pop(0), or None
WPop(w) ==
    /\ wpc[w] = "pop"
    /\ IF Len(crawler_list) > 0
       THEN /\ windex' = [windex EXCEPT ![w] = PopItem(crawler_list)]
            /\ crawler_list' = PopRest(crawler_list)
            /\ claimed' = Append(claimed, PopItem(crawler_list))
       ELSE /\ windex' = [windex EXCEPT ![w] = None]
            /\ UNCHANGED <<crawler_list, claimed>>
    /\ wpc' = [wpc EXCEPT ![w] = "release"]
    /\ UNCHANGED <<cfgVars, mainVars, cl_lock, cl_stop, dlVars, flagVars, wtmp, active,
                   started, daemonVars, stopVars, now, logVars, extractVars, crawlVars,
                   failed>>

\* CrawlerList.get_next_item: finally: self.lock.release(); return item
WRelease(w) ==
    /\ wpc[w] = "release"
    /\ cl_lock = w
    /\ cl_lock' = AfterRelease(w)
    /\ wpc' = [wpc EXCEPT ![w] = "got"]
    /\ UNCHANGED <<cfgVars, mainVars, crawler_list, cl_stop, dlVars, flagVars, windex,
                   wtmp, active, claimed, started, daemonVars, stopVars, now, logVars, extractVars, crawlVars,
                   failed>>

\* if index is None: the thread is about to leave; else
\* self.start_crawler(index), which starts the job's process
WGot(w) ==
    /\ wpc[w] = "got"
    /\ IF windex[w] = None
       THEN /\ wpc' = [wpc EXCEPT ![w] = "dec_read"]
            /\ UNCHANGED started
       ELSE /\ wpc' = [wpc EXCEPT ![w] = "run"]
            /\ started' = Append(started, windex[w])
    /\ UNCHANGED <<cfgVars, mainVars, clVars, dlVars, flagVars, windex, wtmp, active,
                   claimed, daemonVars, stopVars, now, logVars, extractVars, crawlVars,
                   failed>>

\* self.number_of_active_crawlers -= 1: the read
WDecRead(w) ==
    /\ wpc[w] = "dec_read"
    /\ wtmp' = [wtmp EXCEPT ![w] = active]
    /\ wpc' = [wpc EXCEPT ![w] = "dec_write"]
    /\ UNCHANGED <<cfgVars, mainVars, clVars, dlVars, flagVars, windex, active, claimed,
                   started, daemonVars, stopVars, now, logVars, extractVars, crawlVars,
                   failed>>

\* self.number_of_active_crawlers -= 1: the write; break
WDecWrite(w) ==
    /\ wpc[w] = "dec_write"
    /\ active' = wtmp[w] - 1
    /\ wpc' = [wpc EXCEPT ![w] = "done"]
    /\ UNCHANGED <<cfgVars, mainVars, clVars, dlVars, flagVars, windex, wtmp, claimed,
                   started, daemonVars, stopVars, now, logVars, extractVars, crawlVars,
                   failed>>

\* the return codes of a job's process: 0, or an error
ReturnCodes == {0, 1}

\* a thread that ends with the job that failed
AfterJobEndsOnError(returncode) == IF returncode = 0 THEN "loop" ELSE "error"

\* start_crawler: crawler.communicate(); self.crawlers.append(crawler). The
\* return code is not looked at, and the thread is back in its loop.
AfterJob(returncode) == "loop"

\* start_crawler: crawler.communicate() returns when the job's process ends
WExit(w, returncode) ==
    /\ wpc[w] = "run"
    /\ wpc' = [wpc EXCEPT ![w] = AfterJob(returncode)]
    /\ UNCHANGED <<cfgVars, mainVars, clVars, dlVars, flagVars, windex, wtmp, active,
                   claimed, started, daemonVars, stopVars, now, logVars, extractVars, crawlVars>>

\* the job's process ends, with any return code
WJobDone(w) == \E returncode \in ReturnCodes : WExit(w, returncode) /\ UNCHANGED failed

\* the job's process ends, and an error is remembered
WJobExit(w, returncode) ==
    /\ WExit(w, returncode)
    /\ failed' = IF returncode = 0 THEN failed
                 ELSE failed \cup {<<"crawler", windex[w]>>}

\* ----------------------------------------------------------- manage_daemon
\* while not self.shutdown
DLoop(d) ==
    /\ dpc[d] = "loop"
    /\ dpc' = [dpc EXCEPT ![d] = IF shutdown THEN "done" ELSE "get_next_item"]
    /\ UNCHANGED <<cfgVars, mainVars, clVars, dlVars, flagVars, workerVars, ditem,
                   popLog, maxDispatched, inOrder, stopVars, now, logVars, extractVars, crawlVars,
                   failed>>

\* DaemonList.get_next_item: if self.graceful_stop: return None. Back in
\* manage_daemon, item[0] of None raises TypeError: the thread ends with it.
DGetCheck(d) ==
    /\ dpc[d] = "get_next_item"
    /\ IF dl_stop
       THEN /\ ditem' = [ditem EXCEPT ![d] = NoneItem]
            /\ dpc' = [dpc EXCEPT ![d] = "error"]
       ELSE /\ dpc' = [dpc EXCEPT ![d] = "acquire"]
            /\ UNCHANGED ditem
    /\ UNCHANGED <<cfgVars, mainVars, clVars, dlVars, flagVars, workerVars, popLog,
                   maxDispatched, inOrder, stopVars, now, logVars, extractVars, crawlVars,
                   failed>>

\* DaemonList.get_next_item: self.lock.acquire(); self.sort_queue()
DAcquire(d) ==
    /\ dpc[d] = "acquire"
    /\ Unlocked(dl_lock)
    /\ dl_lock' = d
    /\ queue' = SortQueue(queue)
    /\ queue_times' = SortTimes(queue_times)
    /\ dpc' = [dpc EXCEPT ![d] = "pop"]
    /\ UNCHANGED <<cfgVars, mainVars, clVars, daemons, dl_stop, flagVars, workerVars,
                   ditem, popLog, maxDispatched, inOrder, stopVars, now, logVars, extractVars, crawlVars,
                   failed>>

\* DaemonList.get_next_item: the two pops and add_execution. pop(0) of an
\* empty list raises IndexError, which leaves through the finally clause.
DPop(d) ==
    /\ dpc[d] = "pop"
    /\ Len(popLog) < MaxPops
    /\ IF Len(queue) = 0 \/ Len(queue_times) = 0
       THEN /\ dpc' = [dpc EXCEPT ![d] = "raise"]
            /\ UNCHANGED <<queue, queue_times, ditem, popLog>>
       ELSE LET item == Head(queue)
                prev_time == Head(queue_times)
                t == RearmTime(prev_time, now, daemons[EntryJob(item)])
            IN  /\ ditem' = [ditem EXCEPT ![d] = item]
                /\ queue_times' = AddExecutionTimes(PopRest(queue_times), t)
                /\ queue' = AddExecutionQueue(PopRest(queue), PopRest(queue_times), t,
                                              EntryJob(item))
                /\ popLog' = Append(popLog, item)
                /\ dpc' = [dpc EXCEPT ![d] = "release"]
    /\ UNCHANGED <<cfgVars, mainVars, clVars, daemons, dl_lock, dl_stop, flagVars,
                   workerVars, maxDispatched, inOrder, stopVars, now, logVars, extractVars, crawlVars,
                   failed>>

\* DaemonList.get_next_item: finally: self.lock.release(), then return item
\* (or let the exception go on). Back in manage_daemon: cur = time.time();
\* pajama_time = item[0] - cur; the thread waits if pajama_time > 0.
DRelease(d) ==
    /\ dpc[d] \in {"release", "raise"}
    /\ dl_lock = d
    /\ dl_lock' = AfterRelease(d)
    /\ dpc' = [dpc EXCEPT ![d] = IF dpc[d] = "raise" THEN "error"
                                 ELSE IF EntryTime(ditem[d]) - now > 0 THEN "wait"
                                 ELSE "check"]
    /\ UNCHANGED <<cfgVars, mainVars, clVars, daemons, queue, queue_times, dl_stop,
                   flagVars, workerVars, ditem, popLog, maxDispatched, inOrder, stopVars,
                   now, logVars, extractVars, crawlVars,
                   failed>>

\* a wait that returns at once
WaitOverAtOnce(d) == TRUE

\* self.thread_event.wait(pajama_time) returns: the event is set, or the time
\* is up
WaitOver(d) == thread_event \/ now >= EntryTime(ditem[d])

\* a dispatch that does not look at the shutdown flag
ShouldDispatchAlways(sd) == TRUE

\* manage_daemon: if not self.shutdown
ShouldDispatch(sd) == ~sd

\* the wait is over (or there was none); if not self.shutdown:
\* self.start_crawler(item[1], daemonize=True), which starts the job's process
DCheck(d) ==
    /\ dpc[d] \in {"wait", "check"}
    /\ dpc[d] = "wait" => WaitOver(d)
    /\ IF ShouldDispatch(shutdown)
       THEN /\ dpc' = [dpc EXCEPT ![d] = "run"]
            /\ maxDispatched' = Max(maxDispatched, EntryTime(ditem[d]))
            /\ inOrder' = (inOrder /\ EntryTime(ditem[d]) >= maxDispatched)
       ELSE /\ dpc' = [dpc EXCEPT ![d] = "loop"]
            /\ UNCHANGED <<maxDispatched, inOrder>>
    /\ UNCHANGED <<cfgVars, mainVars, clVars, dlVars, flagVars, workerVars, ditem,
                   popLog, stopVars, now, logVars, extractVars, crawlVars,
                   failed>>

\* start_crawler: crawler.communicate() returns when the job's process ends
DExit(d, returncode) ==
    /\ dpc[d] = "run"
    /\ dpc' = [dpc EXCEPT ![d] = AfterJob(returncode)]
    /\ UNCHANGED <<cfgVars, mainVars, clVars, dlVars, flagVars, workerVars, ditem,
                   popLog, maxDispatched, inOrder, stopVars, now, logVars, extractVars, crawlVars>>

\* the job's process ends, with any return code
DJobDone(d) == \E returncode \in ReturnCodes : DExit(d, returncode) /\ UNCHANGED failed

\* the job's process ends, and an error is remembered
DJobExit(d, returncode) ==
    /\ DExit(d, returncode)
    /\ failed' = IF returncode = 0 THEN failed
                 ELSE failed \cup {<<"daemon", EntryJob(ditem[d])>>}

\* the steps a daemon thread takes by itself
DaemonStep(d) ==
    \/ DLoop(d) \/ DGetCheck(d) \/ DAcquire(d) \/ DPop(d) \/ DRelease(d) \/ DCheck(d)

\* ------------------------------------------------- the scheduler's runs
\* sites that are all daemonized
SchedInit ==
    /\ LauncherInit(SiteLists(Daemonize, 1, MaxSites), {1}, DaemonThreads)
    /\ ExtractIdle({DefaultExtractConfig})
    /\ CrawlIdle({CrawlConfig({}, NoDate, NoDate, 1)}, {<<>>})
    /\ LogFile({FALSE}, {<<>>})

SchedNext ==
    \/ RegisterDaemon
    \/ StartCrawlers
    \/ StartDaemons
    \/ MainLoop
    \/ Signal
    \/ StopStep
    \/ Tick
    \/ \E d \in DaemonThreads : DLoop(d)
    \/ \E d \in DaemonThreads : DGetCheck(d)
    \/ \E d \in DaemonThreads : DAcquire(d)
    \/ \E d \in DaemonThreads : DPop(d)
    \/ \E d \in DaemonThreads : DRelease(d)
    \/ \E d \in DaemonThreads : DCheck(d)
    \/ \E d \in DaemonThreads : DJobDone(d)

SchedSpec == SchedInit /\ [][SchedNext]_vars

\* ------------------------------------------------ the crawler pool's runs
\* sites that are all one-shot
PoolInit ==
    /\ LauncherInit(SiteLists(OneShot, 0, MaxItems), Workers, {1})
    /\ ExtractIdle({DefaultExtractConfig})
    /\ CrawlIdle({CrawlConfig({}, NoDate, NoDate, 1)}, {<<>>})
    /\ LogFile({FALSE}, {<<>>})

PoolNext ==
    \/ RegisterOneShot
    \/ StartCrawlers
    \/ StartDaemons
    \/ MainLoop
    \/ Signal
    \/ StopStep
    \/ \E w \in Workers : WIncRead(w)
    \/ \E w \in Workers : WIncWrite(w)
    \/ \E w \in Workers : WLoop(w)
    \/ \E w \in Workers : WGetCheck(w)
    \/ \E w \in Workers : WAcquire(w)
    \/ \E w \in Workers : WPop(w)
    \/ \E w \in Workers : WRelease(w)
    \/ \E w \in Workers : WGot(w)
    \/ \E w \in Workers : WDecRead(w)
    \/ \E w \in Workers : WDecWrite(w)
    \/ \E w \in Workers : WJobDone(w)

PoolSpec == PoolInit /\ [][PoolNext]_vars

\* ------------------------------------------------- the whole launcher's runs
\* sites of all three kinds, one crawler thread and one scheduler thread
MixedSites ==
    OneShot \cup {r \in Daemonize \cup RssDaemon : r.time = 1}

LauncherRunInit ==
    /\ LauncherInit(SiteLists(MixedSites, 1, MaxSites), {1}, {1})
    /\ ExtractIdle({DefaultExtractConfig})
    /\ CrawlIdle({CrawlConfig({}, NoDate, NoDate, 1)}, {<<>>})
    /\ LogFile({FALSE}, {<<>>})

LauncherNext ==
    \/ RegisterDaemon
    \/ RegisterRssDaemon
    \/ RegisterOneShot
    \/ StartCrawlers
    \/ StartDaemons
    \/ MainLoop
    \/ Signal
    \/ StopStep
    \/ Tick
    \/ \E w \in Workers : WIncRead(w)
    \/ \E w \in Workers : WIncWrite(w)
    \/ \E w \in Workers : WLoop(w)
    \/ \E w \in Workers : WGetCheck(w)
    \/ \E w \in Workers : WAcquire(w)
    \/ \E w \in Workers : WPop(w)
    \/ \E w \in Workers : WRelease(w)
    \/ \E w \in Workers : WGot(w)
    \/ \E w \in Workers : WDecRead(w)
    \/ \E w \in Workers : WDecWrite(w)
    \/ \E w \in Workers : WJobDone(w)
    \/ \E d \in DaemonThreads : DLoop(d)
    \/ \E d \in DaemonThreads : DGetCheck(d)
    \/ \E d \in DaemonThreads : DAcquire(d)
    \/ \E d \in DaemonThreads : DPop(d)
    \/ \E d \in DaemonThreads : DRelease(d)
    \/ \E d \in DaemonThreads : DCheck(d)
    \/ \E d \in DaemonThreads : DJobDone(d)

LauncherSpec == LauncherRunInit /\ [][LauncherNext]_vars

\* ------------------------------------------- the launcher's construction
\* the runs of the crawler pool from set_stop_handler on
ConstructInit ==
    /\ LauncherInitAt("handlers_set", SiteLists(OneShot, 0, MaxSites), {1}, {1})
    /\ ExtractIdle({DefaultExtractConfig})
    /\ CrawlIdle({CrawlConfig({}, NoDate, NoDate, 1)}, {<<>>})
    /\ LogFile({FALSE}, {<<>>})

ConstructNext ==
    \/ MakeEvent
    \/ MakeLists
    \/ StopRaises
    \/ RegisterOneShot
    \/ StartCrawlers
    \/ StartDaemons
    \/ MainLoop
    \/ Signal
    \/ StopStep
    \/ \E w \in Workers : WIncRead(w)
    \/ \E w \in Workers : WIncWrite(w)
    \/ \E w \in Workers : WLoop(w)
    \/ \E w \in Workers : WGetCheck(w)
    \/ \E w \in Workers : WAcquire(w)
    \/ \E w \in Workers : WPop(w)
    \/ \E w \in Workers : WRelease(w)
    \/ \E w \in Workers : WGot(w)
    \/ \E w \in Workers : WDecRead(w)
    \/ \E w \in Workers : WDecWrite(w)
    \/ \E w \in Workers : WJobDone(w)

ConstructSpec == ConstructInit /\ [][ConstructNext]_vars

\* ------------------------------------------ the launcher's jobs may fail
\* the runs of the whole launcher, with the failed jobs remembered
FailNext ==
    \/ RegisterDaemon
    \/ RegisterRssDaemon
    \/ RegisterOneShot
    \/ StartCrawlers
    \/ StartDaemons
    \/ MainLoop
    \/ Signal
    \/ StopStep
    \/ Tick
    \/ \E w \in Workers : WIncRead(w)
    \/ \E w \in Workers : WIncWrite(w)
    \/ \E w \in Workers : WLoop(w)
    \/ \E w \in Workers : WGetCheck(w)
    \/ \E w \in Workers : WAcquire(w)
    \/ \E w \in Workers : WPop(w)
    \/ \E w \in Workers : WRelease(w)
    \/ \E w \in Workers : WGot(w)
    \/ \E w \in Workers : WDecRead(w)
    \/ \E w \in Workers : WDecWrite(w)
    \/ \E w \in Workers, returncode \in ReturnCodes : WJobExit(w, returncode)
    \/ \E d \in DaemonThreads : DLoop(d)
    \/ \E d \in DaemonThreads : DGetCheck(d)
    \/ \E d \in DaemonThreads : DAcquire(d)
    \/ \E d \in DaemonThreads : DPop(d)
    \/ \E d \in DaemonThreads : DRelease(d)
    \/ \E d \in DaemonThreads : DCheck(d)
    \/ \E d \in DaemonThreads, returncode \in ReturnCodes : DJobExit(d, returncode)

FailSpec == LauncherRunInit /\ [][FailNext]_vars

\* ------------------------------------------- the launcher's thread limits
\* sites of every kind, with one thread or two allowed to both pools; no
\* signal arrives
LimitInit ==
    /\ LauncherInit(SiteLists(MixedSites, 1, MaxSites), Workers, DaemonThreads)
    /\ cfg_crawlers = cfg_daemons
    /\ ExtractIdle({DefaultExtractConfig})
    /\ CrawlIdle({CrawlConfig({}, NoDate, NoDate, 1)}, {<<>>})
    /\ LogFile({FALSE}, {<<>>})

LimitNext ==
    \/ RegisterDaemon
    \/ RegisterRssDaemon
    \/ RegisterOneShot
    \/ StartCrawlers
    \/ StartDaemons
    \/ MainLoop
    \/ StopStep
    \/ Tick
    \/ \E w \in Workers : WIncRead(w)
    \/ \E w \in Workers : WIncWrite(w)
    \/ \E w \in Workers : WLoop(w)
    \/ \E w \in Workers : WGetCheck(w)
    \/ \E w \in Workers : WAcquire(w)
    \/ \E w \in Workers : WPop(w)
    \/ \E w \in Workers : WRelease(w)
    \/ \E w \in Workers : WGot(w)
    \/ \E w \in Workers : WDecRead(w)
    \/ \E w \in Workers : WDecWrite(w)
    \/ \E w \in Workers : WJobDone(w)
    \/ \E d \in DaemonThreads : DLoop(d)
    \/ \E d \in DaemonThreads : DGetCheck(d)
    \/ \E d \in DaemonThreads : DAcquire(d)
    \/ \E d \in DaemonThreads : DPop(d)
    \/ \E d \in DaemonThreads : DRelease(d)
    \/ \E d \in DaemonThreads : DCheck(d)
    \/ \E d \in DaemonThreads : DJobDone(d)

LimitSpec == LimitInit /\ [][LimitNext]_vars

\* ---------------------------------------------------- the extractor's runs
\* the launcher does not run
ExtractInit ==
    /\ LauncherInit({<<>>}, {1}, {1})
    /\ ExtractIdle(ExtractConfigs)
    /\ CrawlIdle({CrawlConfig({}, NoDate, NoDate, 1)}, {<<>>})
    /\ LogFile({FALSE}, {<<>>})

ExtractNext ==
    \/ \E u \in Urls : XStart(u)
    \/ \E fetched \in BOOLEAN : XDownload(fetched)
    \/ \E rec \in Records : XRecord(rec)
    \/ XIteratorRaises
    \/ XEndOfArchive
    \/ XCleanup
    \/ \E written \in BOOLEAN : XRegister(written)
    \/ XCompleted

ExtractSpec == ExtractInit /\ [][ExtractNext]_vars

\* ------------------------------------------- the extractor, record by record
\* the arguments that bear on the processing of a record
RecordConfigs ==
    {c \in ExtractConfigs : /\ c.callback_on_warc_completed = "returns"
                            /\ c.delete_warc_after_extraction}

RecordInit ==
    /\ LauncherInit({<<>>}, {1}, {1})
    /\ ExtractIdle(RecordConfigs)
    /\ CrawlIdle({CrawlConfig({}, NoDate, NoDate, 1)}, {<<>>})
    /\ LogFile({FALSE}, {<<>>})

RecordNext ==
    \/ \E u \in Urls : XStart(u)
    \/ \E fetched \in BOOLEAN : XDownload(fetched)
    \/ \E rec \in Records : XRecordSeen(rec)
    \/ XIteratorRaises
    \/ XEndOfArchive
    \/ XCleanup
    \/ \E written \in BOOLEAN : XRegister(written)
    \/ XCompleted

RecordSpec == RecordInit /\ [][RecordNext]_vars

\* ------------------------------------------------------- the crawl's runs
\* the launcher and the extractor do not run; the log file is the one a
\* earlier crawl left, if any
CrawlInit ==
    /\ LauncherInit({<<>>}, {1}, {1})
    /\ LogFile(BOOLEAN, FoundLogs)
    /\ ExtractIdle({DefaultExtractConfig})
    /\ CrawlIdle(CrawlConfigs, Listings)

CrawlNext ==
    \/ CFilter
    \/ CPoolMap
    \/ \E u \in Urls : CRunStart(u)
    \/ \E u \in Urls, fetched \in BOOLEAN : CDownload(u, fetched)
    \/ \E u \in Urls, rec \in CrawlRecords : CRecord(u, rec)
    \/ \E u \in Urls : CEndOfArchive(u)
    \/ CMapRaises
    \/ CMapReturns

CrawlSpec == CrawlInit /\ [][CrawlNext]_vars

\* fairness: every started thread keeps running, the main thread goes on, a
\* graceful_stop that was called runs to its end, a job's process ends.
\* No signal need ever arrive.
PoolFairness ==
    /\ WF_vars(RegisterOneShot) /\ WF_vars(StartCrawlers) /\ WF_vars(StartDaemons)
    /\ WF_vars(MainLoop) /\ WF_vars(StopStep)
    /\ \A w \in Workers :
        /\ WF_vars(WIncRead(w)) /\ WF_vars(WIncWrite(w)) /\ WF_vars(WLoop(w))
        /\ WF_vars(WGetCheck(w)) /\ WF_vars(WAcquire(w)) /\ WF_vars(WPop(w))
        /\ WF_vars(WRelease(w)) /\ WF_vars(WGot(w)) /\ WF_vars(WDecRead(w))
        /\ WF_vars(WDecWrite(w)) /\ WF_vars(WJobDone(w))

PoolFairSpec == PoolSpec /\ PoolFairness

\* --------------------------------------------------------------- properties
PendingTimes == [i \in 1..Len(queue) |-> EntryTime(queue[i])]
NoDuplicates(s) == \A i, j \in 1..Len(s) : i # j => s[i] # s[j]
ThreadsStarted == mpc \in {"start_daemons", "loop", "stopping", "done"}
AllCrawlersExited == ThreadsStarted /\ \A w \in Workers : w <= num_threads => wpc[w] = "done"

\* C1: after any sequence of add_daemon registrations and get_next_item pops
\* with re-arming, no two pending schedule entries carry the same execution
\* timestamp.
C1_PendingTimestampsDistinct == NoDuplicates(PendingTimes)

\* two sites were registered in second 0, the second one was shifted to second
\* 1, and the first has been popped and re-armed
C1_Witness ==
    /\ now = 0 /\ Len(queue) = 2 /\ Len(popLog) >= 1
    /\ popLog[1] = <<0, 1>>
    /\ \E i \in 1..2 : queue[i][1] = 1 /\ queue[i][2] = 2

\* C2: under every interleaving of the crawler threads and of a stop request,
\* each item of the work queue is returned by CrawlerList.get_next_item at
\* most once, and no one-shot job is started twice.
C2_ItemClaimedAtMostOnce == NoDuplicates(claimed) /\ NoDuplicates(started)

\* both threads run a job they claimed while a stop request is under way
C2_Witness ==
    /\ wpc[1] = "run" /\ wpc[2] = "run" /\ windex[1] # windex[2]
    /\ shutdown /\ Len(claimed) = 2

\* C3: when no stop is signalled, the crawler threads start exactly one job
\* per queued item, none dropped and none twice, and every crawler thread
\* leaves its loop.
C3_AllItemsStartedOnce ==
    /\ [](AllCrawlersExited /\ ~shutdown =>
            /\ Len(started) = Len(sites)
            /\ NoDuplicates(started)
            /\ Range(started) = 1..Len(sites))
    /\ <>AllCrawlersExited

\* two threads have worked off three items and left, and no stop was signalled
C3_Witness ==
    /\ AllCrawlersExited /\ ~shutdown /\ signals = 0
    /\ num_threads = 2 /\ Len(sites) = 3 /\ Len(started) = 3

\* C4: after a run of extract_from_commoncrawl for an archive has ended, the
\* URL of the archive has been appended to the log of the fully extracted
\* WARC files if and only if the run ended normally; a run that ended with
\* an exception has left the log as it was.
C4_LoggedIffCompleted ==
    x_pc \in {"completed", "error"} => (x_appended <=> x_pc = "completed")

\* C5: once crawl has filtered the listing, every listed URL has been handed
\* to pool.map if and only if it is not in the log file.
C5_HandedIffNotLogged ==
    c_pc \in {"map", "done", "error"} =>
        \A u \in Range(c_index) : InList(u, c_handed) <=> ~InList(u, log)

\* C6: once a stop request has completed, no crawler thread claims a new item
\* from the work queue.
C6_NoClaimAfterStop == [][StopCompleted => claimed' = claimed]_vars

\* C7: a scheduler thread that is waiting for a future execution timestamp
\* when a stop request is made can leave its wait at once, whatever the time,
\* and a wait that ends before the timestamp is not followed by the dispatch
\* of the waiting entry.
C7_StopEndsWaitWithoutDispatch ==
    /\ [](\A d \in DaemonThreads :
            dpc[d] = "wait" /\ StopCompleted => ENABLED DCheck(d))
    /\ [][\A d \in DaemonThreads :
            dpc[d] = "wait" /\ dpc'[d] # "wait" /\ now < EntryTime(ditem[d])
                => dpc'[d] = "loop"]_vars

\* a thread is back at the head of its loop with an entry whose timestamp is
\* still in the future: its wait was ended by the stop request
C7_Witness ==
    \E d \in DaemonThreads :
        /\ dpc[d] = "loop" /\ ditem[d] # NoneItem
        /\ now < EntryTime(ditem[d]) /\ StopCompleted

\* C8: under every interleaving of a stop request with manage_daemon, no
\* scheduler thread ends in an error state.
C8_NoSchedulerThreadError == \A d \in DaemonThreads : dpc[d] # "error"

\* C9, as claimed: when a stop has been signalled, a scheduler thread goes on
\* towards the end of its loop while the job it dispatched is still in flight.
C9_LoopDoesNotWaitForJob ==
    \A d \in DaemonThreads : StopCompleted /\ dpc[d] = "run" => ENABLED DaemonStep(d)

\* C9, amended: after a stop, a scheduler thread whose job is in flight takes
\* no step until the job's process ends; a scheduler thread that is not in a
\* job and does not wait for the list's lock can take a step, whatever jobs
\* other threads have in flight; and no thread dispatches a job any more.
C9_LoopWaitsOnlyForOwnJob ==
    /\ [](\A d \in DaemonThreads : StopCompleted =>
            /\ dpc[d] = "run" => ~ENABLED DaemonStep(d)
            /\ dpc[d] \in {"loop", "get_next_item", "wait", "check", "release"}
                 => ENABLED DaemonStep(d))
    /\ [][\A d \in DaemonThreads :
            StopCompleted /\ dpc[d] # "run" => dpc'[d] # "run"]_vars

\* the stop has completed while one thread has a job in flight and the other
\* has left its loop
C9_Witness ==
    /\ StopCompleted
    /\ \E d, e \in DaemonThreads : dpc[d] = "run" /\ dpc[e] = "done"

\* C10, as claimed: no entry is dispatched after an entry with a later
\* execution timestamp, for any number of scheduler threads.
C10_DispatchInTimestampOrder == inOrder

\* C10, amended: with a single scheduler thread no entry is dispatched after
\* an entry with a later execution timestamp.
C10_SingleThreadDispatchInOrder == num_daemons <= 1 => inOrder

\* one scheduler thread has dispatched entries of two jobs, the later ones
\* re-armed
C10_Witness ==
    /\ num_daemons = 1 /\ Len(queue) = 2 /\ Len(popLog) >= 3
    /\ maxDispatched >= 1 /\ dpc[1] = "run"

\* every registered repetition time is a whole second or more
IntervalsPositive == \A i \in 1..Len(sites) : sites[i].time >= 1

\* the entries popped so far carry pairwise distinct timestamps
PoppedTimesDistinct ==
    \A i, j \in 1..Len(popLog) : i # j => EntryTime(popLog[i]) # EntryTime(popLog[j])

\* C11 (as stated): over a whole run, with arbitrary repetition times and any
\* number of scheduler threads, no two entries popped by get_next_item carry
\* the same execution timestamp.
C11_PoppedTimestampsDistinct == PoppedTimesDistinct

\* C11 (amended): when every repetition time is at least one second, no two
\* entries popped by get_next_item carry the same execution timestamp.
C11_PoppedDistinctForPositiveIntervals == IntervalsPositive => PoppedTimesDistinct

\* two threads have popped three entries of two jobs with positive repetition
\* times, one of them an entry add_execution had shifted
C11_Witness ==
    /\ IntervalsPositive /\ Len(sites) = 2 /\ num_daemons = 2
    /\ Len(popLog) >= 3
    /\ \E i \in 1..Len(popLog) : EntryJob(popLog[i]) = 2 /\ EntryTime(popLog[i]) = 1

\* thread d pops an entry in this step, and the entry is overdue
LatePop(d) ==
    /\ dpc[d] = "pop" /\ dpc'[d] = "release"
    /\ now > Head(queue_times)

RepeatedStopStep ==
    /\ StopCompleted
    /\ stop_pc \in 1..Len(StopOrder) /\ stop_pc' # stop_pc

\* C13: a second or further call of graceful_stop changes nothing: the
\* shutdown flag, the stop flags of both lists and the event stay set, and
\* the crawler list, the daemons and the queue of executions stay as they are.
C13_StopIsIdempotent ==
    [][RepeatedStopStep =>
         /\ shutdown' /\ cl_stop' /\ dl_stop' /\ thread_event'
         /\ <<shutdown, cl_stop, dl_stop, thread_event>>' =
              <<shutdown, cl_stop, dl_stop, thread_event>>
         /\ <<crawler_list, daemons, queue, queue_times>>' =
              <<crawler_list, daemons, queue, queue_times>>]_vars

\* graceful_stop has run to its end twice, with a site left in the crawler
\* list and an execution left in the queue
C13_Witness ==
    /\ signals = 2 /\ stop_pc = 0 /\ StopCompleted
    /\ Len(crawler_list) >= 1 /\ Len(queue) >= 1

\* worker w runs a job, or is on its way to get_next_item and a job
WorkerBusy(w) ==
    \/ wpc[w] \in {"inc_read", "inc_write", "get_next_item", "acquire", "pop", "release",
                   "run"}
    \/ wpc[w] = "loop" /\ CrawlerLoopCondition(shutdown, windex[w])
    \/ wpc[w] = "got" /\ windex[w] # None

\* the main loop reads number_of_active_crawlers as 0 and calls graceful_stop
PoolReportsIdle == mpc = "loop" /\ mpc' = "stopping"

\* C14: whenever the main loop finds number_of_active_crawlers = 0 and stops
\* by itself, no crawler thread runs a job and none is about to start one.
C14_IdleMeansNoJobInFlight ==
    [][PoolReportsIdle => \A w \in Workers : ~WorkerBusy(w)]_vars

\* the loop over the records ends in this step, not by an exception of a record
ArchiveExhausted == x_pc = "iterate" /\ x_pc' # "iterate" /\ x_n' = x_n

\* C15: when the archive is exhausted and held no response record, the run
\* goes on to the cleanup, the log entry and the completion callback; it does
\* not end with an error.
C15_EmptyArchiveCompletes ==
    [][ArchiveExhausted /\ x_count.total = 0 => x_pc' = "cleanup"]_vars

\* the loop body processes a response record in this step
ResponseProcessed == x_pc = "iterate" /\ x_count'.total = x_count.total + 1

\* processing rec raises: NewsPlease.from_warc is called for every response
\* record that passes the host filter, callback_on_article_extracted for
\* every record that passes the whole filter
RecordFails(rec, cfg) ==
    /\ rec.type = "response"
    /\ cfg.valid_hosts = {} \/ HostInUrl(rec, cfg.valid_hosts)
    /\ rec.extract_fails \/ (FilterRecord(rec, cfg) /\ rec.callback_fails)

\* C16: when the processing of a record raises, then with
\* continue_after_error set the error counter grows by one and the loop goes
\* on with the next record; with it unset the run ends with the exception, the
\* URL is not appended to the log and callback_on_warc_completed is not called.
C16_RecordFailureFollowsFlag ==
    /\ [](x_pc = "iterate" =>
            \A rec \in Records :
              RecordFails(rec, x_cfg) =>
                LET r == ProcessRecord(rec, x_cfg, x_count)
                IN  IF x_cfg.continue_after_error
                    THEN ~r.raised /\ r.count.error = x_count.error + 1
                    ELSE r.raised /\ r.count.error = x_count.error)
    /\ [][ResponseProcessed =>
            /\ x_cfg.continue_after_error =>
                 /\ x_pc' = "iterate"
                 /\ x_count'.error \in {x_count.error, x_count.error + 1}
            /\ x_pc' = "error" =>
                 /\ ~x_cfg.continue_after_error
                 /\ ~x_appended' /\ log' = log /\ x_completed' = <<>>]_vars

\* with continue_after_error set, the first record raised and was counted as
\* an error, and the second record was processed and its article delivered
C16_Witness ==
    /\ x_cfg.continue_after_error
    /\ x_n = 2 /\ x_count.total = 2 /\ x_count.error = 1
    /\ x_delivered = <<2>> /\ x_pc = "iterate"

\* C17: a run that completes normally has, after the last record and in this
\* order, removed the local file (if and only if
\* delete_warc_after_extraction is set), appended the URL to the log, and
\* called callback_on_warc_completed once, with the URL and the counters
\* passed, discarded, error, total.
C17_CompletionStepsInOrder ==
    /\ [](x_pc = "completed" =>
            /\ (x_url \in x_file) = ~x_cfg.delete_warc_after_extraction
            /\ x_appended /\ Len(log) >= 1 /\ log[Len(log)] = x_url
            /\ x_completed = <<<<x_url, x_count.passed, x_count.discarded,
                                 x_count.error, x_count.total>>>>)
    /\ [][/\ x_url \in x_file /\ x_url \notin x_file' =>
               /\ x_pc = "cleanup" /\ x_cfg.delete_warc_after_extraction
               /\ ~x_appended /\ x_completed = <<>>
          /\ log' # log =>
               /\ x_pc = "register" /\ log' = Append(log, x_url)
               /\ x_cfg.delete_warc_after_extraction => x_url \notin x_file
               /\ x_completed = <<>>
          /\ Len(x_completed') > Len(x_completed) =>
               /\ x_pc = "callback" /\ x_appended /\ x_completed = <<>>
          /\ x_pc \in {"cleanup", "register", "callback"} =>
               x_n' = x_n /\ x_count' = x_count]_vars

\* a run with two records has completed normally and removed its file
C17_Witness ==
    /\ x_pc = "completed" /\ x_cfg.delete_warc_after_extraction
    /\ x_url \notin x_file
    /\ x_count.total = 2 /\ x_count.passed = 1 /\ x_count.discarded = 1

\* C18: no URL occurs twice in the log of the fully extracted WARC files.
C18_NoUrlTwiceInLog ==
    \A i, j \in 1..Len(log) : i # j => log[i] # log[j]

\* the extractor's arguments name no host and no date
ExtractUnfiltered(cfg) ==
    cfg.valid_hosts = {} /\ cfg.start_date = NoDate /\ cfg.end_date = NoDate

\* CommonCrawler was constructed without hosts and without dates
CrawlUnfiltered(cfg) ==
    /\ cfg.valid_hosts = {}
    /\ cfg.start_date = DefaultStartDay /\ cfg.end_date = DefaultEndDay

\* process_warc_file counts a response record of archive u in this step
CrawlCounts(u) == c_run[u] = "iterate" /\ c_count'[u].total = c_count[u].total + 1

\* C19: with no host and no start or end date configured, the filter accepts
\* every response record, whatever its host and date: __filter_record
\* returns True for it, and process_warc_file never counts one as discarded.
C19_UnfilteredAcceptsAll ==
    /\ [](\A cfg \in ExtractConfigs, rec \in Records :
            ExtractUnfiltered(cfg) /\ rec.type = "response" => FilterRecord(rec, cfg))
    /\ [][\A u \in Urls :
            CrawlUnfiltered(c_cfg) /\ CrawlCounts(u) =>
              c_count'[u].discarded = c_count[u].discarded]_vars

\* C20: with hosts configured, a record whose target host is none of them is
\* rejected, whatever its date and the date bounds: __filter_record returns
\* False for every such record the running extraction may meet, and so does
\* is_wanted_record.
C20_ForeignHostRejected ==
    /\ \A cfg \in CrawlConfigs, rec \in CrawlRecords :
         cfg.valid_hosts # {} /\ rec.host \notin cfg.valid_hosts =>
           ~IsWantedRecord(rec, cfg)
    /\ x_pc = "iterate" /\ x_cfg.valid_hosts # {} =>
         \A rec \in Records :
           rec.type = "response" /\ rec.host \notin x_cfg.valid_hosts =>
             ~FilterRecord(rec, x_cfg)

\* d lies between the bounds, both included; a bound that is not set (unset)
\* does not constrain
InBounds(d, start_date, end_date, unset_start, unset_end) ==
    /\ start_date # unset_start => start_date <= d
    /\ end_date # unset_end => d <= end_date

\* C21: with a date bound configured and a date found for the record, a
\* record that passes the host test passes the filter if and only if its date
\* lies between start date and end date, both included, where a bound that is
\* not configured does not constrain: for is_wanted_record and the warc-date,
\* and for __filter_record and the pub_date.
C21_DateBoundsInclusive ==
    (\E u \in Urls : c_run[u] = "iterate") =>
      /\ c_cfg.start_date # DefaultStartDay \/ c_cfg.end_date # DefaultEndDay =>
           \A rec \in CrawlRecords :
             c_cfg.valid_hosts = {} \/ rec.host \in c_cfg.valid_hosts =>
               (IsWantedRecord(rec, c_cfg) <=>
                  InBounds(rec.warc_date, c_cfg.start_date, c_cfg.end_date,
                           DefaultStartDay, DefaultEndDay))
      /\ \A cfg \in ExtractConfigs, rec \in Records :
           /\ cfg.start_date # NoDate \/ cfg.end_date # NoDate
           /\ rec.pub_date # NoDate
           /\ cfg.valid_hosts = {} \/ HostInUrl(rec, cfg.valid_hosts)
           => (FilterRecord(rec, cfg) <=>
                 InBounds(rec.pub_date, cfg.start_date, cfg.end_date, NoDate, NoDate))

\* the extractor has a start date or an end date
DatesConfigured(cfg) == cfg.start_date # NoDate \/ cfg.end_date # NoDate

\* rec passes the host test of __filter_record
HostAccepted(rec, cfg) == cfg.valid_hosts = {} \/ HostInUrl(rec, cfg.valid_hosts)

\* C22: with a date bound configured, a response record that passes the host
\* test and whose article has no pub_date is discarded when strict_date is
\* set, and passes (it is counted as passed and its article handed to
\* callback_on_article_extracted) when strict_date is not set.
C22_NoDateFollowsStrictDate ==
    [][/\ ResponseProcessed /\ DatesConfigured(x_cfg)
       /\ HostAccepted(x_rec', x_cfg)
       /\ x_rec'.pub_date = NoDate /\ ~x_rec'.extract_fails
       => IF x_cfg.strict_date
          THEN /\ x_count'.discarded = x_count.discarded + 1
               /\ x_count'.passed = x_count.passed
               /\ x_delivered' = x_delivered
          ELSE /\ x_count'.passed = x_count.passed + 1
               /\ x_count'.discarded = x_count.discarded
               /\ x_delivered' = Append(x_delivered, x_n + 1)]_vars

\* with hosts and a start date configured and strict_date not set, the first
\* record, of a configured host and without pub_date, has passed
C22_Witness ==
    /\ x_pc = "iterate" /\ x_n = 1 /\ x_rec # NoRecord
    /\ x_cfg.valid_hosts # {} /\ x_cfg.start_date # NoDate /\ ~x_cfg.strict_date
    /\ x_rec.type = "response" /\ x_rec.host \in x_cfg.valid_hosts
    /\ x_rec.pub_date = NoDate
    /\ x_count.passed = 1 /\ x_delivered = <<1>>

\* __download returns or raises in this step
DownloadEnds == x_pc = "download" /\ x_pc' # "download"

\* C23: __download maps a URL to one local path. When a file is at that path
\* it returns the path and neither downloads nor touches any file; else the
\* one file it may create is the file at that path. So of two fetches of a
\* URL in a row at most the first downloads.
C23_LocalFileReused ==
    [][DownloadEnds =>
         /\ x_url \in x_file => x_pc' = "iterate" /\ x_file' = x_file
         /\ x_pc' = "iterate" => x_url \in x_file'
         /\ x_file \subseteq x_file' /\ x_file' \subseteq x_file \cup {x_url}]_vars

\* the second run fetches the URL of the first run, whose file was kept, and
\* goes on with the local file
C23_Witness ==
    /\ x_runs = 2 /\ x_pc = "iterate" /\ x_n = 0
    /\ ~x_cfg.delete_warc_after_extraction
    /\ log = <<x_url>> /\ x_file = {x_url}

\* __filter_record returns True for the record: every test passes and
\* from_warc, when the date tests ask for the article, returns it
FilterAccepts(rec, cfg) ==
    /\ FilterRecord(rec, cfg)
    /\ ~(FilterExtracts(rec, cfg) /\ rec.extract_fails)

\* the loop body ran for a record that is not a response
NonResponseProcessed ==
    /\ x_pc = "iterate" /\ x_pc' = "iterate" /\ x_n' = x_n + 1
    /\ x_rec' # NoRecord /\ x_rec'.type # "response"

\* the positions in delivered grow strictly
StrictlyIncreasing(delivered) ==
    \A i, j \in 1..Len(delivered) : i < j => delivered[i] < delivered[j]

OneShotSites ==
    {i \in 1..Len(sites) : sites[i].kind \in {"oneshot", "additional_rss_daemon"}}
DaemonSites ==
    {i \in 1..Len(sites) : sites[i].kind \in {"daemonize", "additional_rss_daemon"}}

\* the threads inside start_crawler
CrawlersRunning == {w \in Workers : wpc[w] = "run"}
DaemonsRunning == {d \in DaemonThreads : dpc[d] = "run"}

\* C25: at every moment the one-shot jobs in execution are at most
\* min(number_of_parallel_crawlers, one-shot items queued) and the daemon
\* jobs in execution at most min(number_of_parallel_daemons, daemons
\* registered).
C25_JobsWithinThreadLimits ==
    /\ Cardinality(CrawlersRunning) <= Min(cfg_crawlers, Cardinality(OneShotSites))
    /\ Cardinality(DaemonsRunning) <= Min(cfg_daemons, Cardinality(DaemonSites))

\* two sites that are both in the crawler list and daemons, one thread
\* allowed to each pool: one job of each kind runs, and a one-shot item and a
\* daemon entry wait
C25_Witness ==
    /\ cfg_crawlers = 1 /\ cfg_daemons = 1
    /\ Cardinality(OneShotSites) = 2 /\ Cardinality(DaemonSites) = 2
    /\ CrawlersRunning = {1} /\ DaemonsRunning = {1}
    /\ Len(crawler_list) = 1

\* a thread comes back from start_crawler
WorkerJobEnds(w) == wpc[w] = "run" /\ wpc'[w] # "run"
DaemonJobEnds(d) == dpc[d] = "run" /\ dpc'[d] # "run"

\* C26: a job that fails stops neither its thread nor any other: the thread
\* is back in its loop with every other thread, the crawler list and the
\* daemon queue as they were; no crawler thread has ended while items are
\* left and no daemon thread has ended, unless a stop was asked for.
C26_FailedJobLeavesThreadsRunning ==
    /\ [](/\ \A w \in Workers :
               wpc[w] \in {"done", "error"} /\ ~shutdown /\ ~cl_stop
                 => wpc[w] = "done" /\ crawler_list = <<>>
          /\ \A d \in DaemonThreads : dpc[d] \in {"done", "error"} => shutdown)
    /\ [][/\ \A w \in Workers :
               WorkerJobEnds(w) =>
                 /\ wpc' = [wpc EXCEPT ![w] = "loop"]
                 /\ CrawlerLoopCondition(shutdown', windex'[w]) = ~shutdown
                 /\ dpc' = dpc /\ crawler_list' = crawler_list /\ queue' = queue
          /\ \A d \in DaemonThreads :
               DaemonJobEnds(d) =>
                 /\ dpc' = [dpc EXCEPT ![d] = "loop"]
                 /\ wpc' = wpc /\ crawler_list' = crawler_list /\ queue' = queue]_vars

\* the first one-shot job and the first daemon job have failed; the crawler
\* thread has gone on to start the second item and the daemon thread runs
\* the second entry
C26_Witness ==
    /\ ~shutdown
    /\ <<"crawler", 1>> \in failed /\ <<"daemon", 1>> \in failed
    /\ started = <<1, 2>> /\ wpc[1] = "run"
    /\ dpc[1] = "run" /\ EntryJob(ditem[1]) = 2

\* get_next_item pops and re-arms in this step
PopStep(d) == dpc[d] = "pop" /\ dpc'[d] = "release"

\* the least time from t on that is not in the list of times
LeastFree(t, times) ==
    CHOOSE u \in t..(t + Len(times)) :
        /\ ~InList(u, times)
        /\ \A k \in t..(u - 1) : InList(k, times)

\* C27: DaemonList.get_next_item removes the earliest pending entry (prev,
\* job) and, holding the lock all along, appends an entry of the same job at
\* the first free second from max(prev, now) + interval(job) on, with every
\* other entry left as it was; a job popped before its due time is re-armed
\* at prev + interval(job) when that second is free.
C27_PopRearmsSameJob ==
    [][\A d \in DaemonThreads :
         PopStep(d) =>
           LET item == Head(queue)
               prev == EntryTime(item)
               job == EntryJob(item)
               others == Tail(queue_times)
               next == queue'[Len(queue')]
           IN  /\ dl_lock = d /\ dl_lock' = d
               /\ \A i \in 1..Len(queue) : prev <= EntryTime(queue[i])
               /\ ditem'[d] = item
               /\ Len(queue') = Len(queue)
               /\ SubSeq(queue', 1, Len(queue') - 1) = Tail(queue)
               /\ queue_times' = Append(others, EntryTime(next))
               /\ EntryJob(next) = job
               /\ EntryTime(next) = LeastFree(Max(prev, now) + daemons[job], others)
               /\ now <= prev /\ ~InList(prev + daemons[job], others)
                    => EntryTime(next) = prev + daemons[job]]_vars

\* a thread has popped an entry before its due time, and the job's next entry
\* is at the due time plus the repetition time, behind another job's entry
C27_Witness ==
    \E d \in DaemonThreads :
        /\ dpc[d] = "release" /\ ditem[d] # NoneItem
        /\ EntryTime(ditem[d]) > now
        /\ daemons[EntryJob(ditem[d])] > 0
        /\ Len(queue) = 2
        /\ queue[2] = <<EntryTime(ditem[d]) + daemons[EntryJob(ditem[d])],
                        EntryJob(ditem[d])>>

\* add_daemon has registered the next site in this step
DaemonRegistered == mpc = "register" /\ Len(queue') = Len(queue) + 1

\* C28: add_execution(t, job) appends the entry of the job at the least
\* second from t on that is not among the pending times, and leaves every
\* other pending entry as it was; so of two jobs registered in the same
\* second the later one is placed at least one second after the other.
C28_AddExecutionTakesLeastFreeSecond ==
    /\ [](\A t \in 0..(MaxTime + 2), index \in 1..MaxSites :
            LET slot == LeastFree(t, queue_times)
            IN  /\ slot >= t /\ ~InList(slot, queue_times)
                /\ AddExecutionTimes(queue_times, t) = Append(queue_times, slot)
                /\ AddExecutionQueue(queue, queue_times, t, index)
                     = Append(queue, <<slot, index>>))
    /\ [][DaemonRegistered =>
            /\ queue' = Append(queue, <<LeastFree(now, queue_times), site_i + 1>>)
            /\ queue_times' = Append(queue_times, LeastFree(now, queue_times))
            /\ \A i \in 1..Len(queue) :
                 EntryTime(queue[i]) >= now
                   => EntryTime(queue'[Len(queue')]) >= EntryTime(queue[i]) + 1]_vars

\* two daemons were registered in the same second: the entry of the second
\* is one second after the entry of the first
C28_Witness ==
    /\ mpc = "register" /\ site_i = 2 /\ now = 0
    /\ queue = <<<<0, 1>>, <<1, 2>>>>
    /\ queue_times = <<0, 1>>

\* the items append_item has appended so far, in the order of the calls
AppendedItems == SelectSeq([i \in 1..site_i |-> i], LAMBDA i : i \in OneShotSites)

\* C29: the one-shot items are popped in the order they were appended,
\* whichever crawler threads pop them: the items popped so far, in the order
\* of the pops, followed by the items still in the list are the items in the
\* order they were appended.
C29_PoppedInAppendOrder == claimed \o crawler_list = AppendedItems

\* of three items the second crawler thread has popped the first and the
\* first crawler thread the second
C29_Witness ==
    /\ claimed = <<1, 2>> /\ crawler_list = <<3>>
    /\ windex[2] = 1 /\ windex[1] = 2

\* the positions of a thread between lock.acquire() and lock.release()
WorkerInSection(w) == wpc[w] \in {"pop", "release"}
DaemonInSection(d) == dpc[d] \in {"pop", "release", "raise"}

\* the main thread registers a site: append_item and add_daemon acquire the
\* lock, write and release it
MainRegisters == mpc = "register" /\ MainRuns /\ site_i' = site_i + 1

\* C30: the crawler list and the daemon queue are written only by a thread
\* that holds the list's lock; a lock has one holder at most, the thread that
\* is between acquire and release; and no thread holds a lock while it waits
\* for a due time or runs a job.
C30_ListsWrittenUnderLock ==
    /\ [](/\ \A w \in Workers : WorkerInSection(w) <=> cl_lock = w
          /\ \A d \in DaemonThreads : DaemonInSection(d) <=> dl_lock = d
          /\ \A w \in Workers : wpc[w] = "run" => cl_lock # w
          /\ \A d \in DaemonThreads : dpc[d] \in {"wait", "check", "run"} => dl_lock # d)
    /\ [][/\ crawler_list' # crawler_list =>
               \/ \E w \in Workers :
                    /\ cl_lock = w /\ cl_lock' = w
                    /\ wpc[w] = "pop" /\ wpc'[w] = "release"
               \/ MainRegisters /\ cl_lock = Free /\ cl_lock' = Free
          /\ queue' # queue \/ queue_times' # queue_times =>
               \/ \E d \in DaemonThreads :
                    /\ dl_lock \in {Free, d} /\ dl_lock' = d
                    /\ dpc[d] \in {"acquire", "pop"} /\ dpc'[d] \in {"pop", "release"}
               \/ MainRegisters /\ dl_lock = Free /\ dl_lock' = Free]_vars

\* one crawler thread runs a job and the other is inside get_next_item with
\* the lock, while one daemon thread waits for a due time and the other has
\* popped and re-armed an entry with the lock
C30_Witness ==
    /\ wpc[1] = "run" /\ wpc[2] = "release" /\ cl_lock = 2
    /\ dpc[1] = "wait" /\ dpc[2] = "release" /\ dl_lock = 2

\* __register_fully_extracted_warc_file raises in this step
RegisterRaises == x_pc = "register" /\ log' = log

\* C31: when the URL cannot be appended to the log of fully extracted WARC
\* files, the exception leaves the run: the run ends with it,
\* callback_on_warc_completed is not called, and the run does not count the
\* URL as appended.
C31_LogFailureEndsRun ==
    /\ [](x_pc \in {"callback", "completed"} => x_appended /\ InList(x_url, log))
    /\ [](x_pc = "error" /\ ~x_appended => x_completed = <<>>)
    /\ [][RegisterRaises =>
            /\ x_pc' = "error"
            /\ ~x_appended' /\ x_completed' = <<>>
            /\ log_exists' = log_exists]_vars

\* a run has processed its records and removed its file, and ended with the
\* error of the log: the URL is not in the log and the callback was not called
C31_Witness ==
    /\ x_pc = "error" /\ x_count.total >= 1
    /\ x_cfg.delete_warc_after_extraction /\ x_url \notin x_file
    /\ x_cfg.callback_on_warc_completed = "returns"
    /\ ~x_appended /\ log = <<>> /\ x_completed = <<>>

\* the job a daemon thread runs
RunningJob(d) == EntryJob(ditem[d])

\* C32: no daemon job runs in two daemon threads at the same time.
C32_JobRunsInOneThread ==
    \A d1, d2 \in DaemonThreads :
        d1 # d2 /\ dpc[d1] = "run" /\ dpc[d2] = "run" => RunningJob(d1) # RunningJob(d2)

\* the entries of a job in the queue
EntriesOf(job) == {i \in 1..Len(queue) : EntryJob(queue[i]) = job}

\* C33: whenever the lock of the daemon list is free, the queue holds one
\* entry for each registered daemon and no other entry, with its time in
\* queue_times; so get_next_item never pops from an empty queue.
C33_OneEntryForEachDaemon ==
    /\ dl_lock = Free =>
         /\ Len(queue) = Cardinality(DOMAIN daemons)
         /\ Len(queue_times) = Len(queue)
         /\ \A job \in DOMAIN daemons : Cardinality(EntriesOf(job)) = 1
         /\ \A t \in Range(queue_times) : \E i \in 1..Len(queue) : EntryTime(queue[i]) = t
    /\ \A d \in DaemonThreads : dpc[d] = "pop" => Len(queue) > 0 /\ Len(queue_times) > 0
    /\ \A d \in DaemonThreads : dpc[d] # "raise"

\* two daemons are registered, two entries have been popped and re-armed, and
\* the lock is free: the queue holds an entry of each daemon
C33_Witness ==
    /\ mpc = "loop" /\ dl_lock = Free
    /\ Cardinality(DOMAIN daemons) = 2 /\ Len(popLog) = 2
    /\ EntryJob(queue[1]) # EntryJob(queue[2])

\* a daemon thread comes to "if not self.shutdown" and calls start_crawler
Dispatches(d) == dpc[d] \in {"wait", "check"} /\ dpc'[d] = "run"

\* thread_event.wait returns before the time of the thread's entry
WaitEndsEarly(d) == dpc[d] = "wait" /\ dpc'[d] # "wait" /\ now < EntryTime(ditem[d])

\* C34: no daemon job is dispatched before the time of the entry popped for
\* it; a wait that ends before that time was ended by graceful_stop, which
\* has set shutdown before the event, and the job is not dispatched.
C34_NoDispatchBeforeDueTime ==
    /\ [](thread_event => shutdown)
    /\ [][\A d \in DaemonThreads :
            /\ Dispatches(d) => now >= EntryTime(ditem[d]) /\ ~shutdown
            /\ WaitEndsEarly(d) =>
                 thread_event /\ shutdown /\ dpc'[d] = "loop"]_vars

\* the second thread has waited for the time of its entry and runs the job;
\* the first thread was woken by a stop before the time of its entry and has
\* not dispatched the job
C34_Witness ==
    /\ dpc[2] = "run" /\ EntryTime(ditem[2]) = 1 /\ now = 1
    /\ dpc[1] \in {"loop", "done"} /\ ditem[1] # NoneItem
    /\ EntryTime(ditem[1]) > now /\ thread_event

\* C35: with no daemon and no stop signal, when every crawler thread has
\* worked off the list and left, number_of_active_crawlers is 0 again, so the
\* main loop calls graceful_stop and ends.
C35_ActiveCountBackAtZero ==
    AllCrawlersExited /\ signals = 0 /\ ~shutdown /\ stop_pc = 0 => active = 0

\* the loop over the records has ended without an exception
LoopEnded == x_pc \in {"cleanup", "register", "callback", "completed"}

\* C36: with continue_after_error set, when the loop over the records has
\* ended, article_total = article_passed + article_discarded + article_error.
C36_CountersAddUp ==
    x_cfg.continue_after_error /\ LoopEnded =>
        x_count.total = x_count.passed + x_count.discarded + x_count.error

\* C37: the times of the entries that successive get_next_item calls return
\* never decrease, whichever threads make the calls.
C37_PoppedTimesNeverDecrease ==
    \A i, j \in 1..Len(popLog) :
        i < j => EntryTime(popLog[i]) <= EntryTime(popLog[j])

\* two daemons and two threads: four entries were popped, the last at a
\* later time than the first, both for the same job
C37_Witness ==
    /\ num_daemons = 2 /\ Len(popLog) = 4
    /\ EntryJob(popLog[1]) = EntryJob(popLog[3])
    /\ EntryTime(popLog[1]) < EntryTime(popLog[3])
    /\ EntryTime(popLog[3]) <= EntryTime(popLog[4])

\* C38: a stop signal that arrives at any time after set_stop_handler, the
\* rest of __init__ included, sets shutdown and raises no error.
C38_StopNeverRaises == mpc # "raised"

C40_LocksAlwaysReleased ==
    /\ \A w \in Workers :
         cl_lock = w =>
           \/ wpc[w] = "pop" /\ ENABLED WPop(w)
           \/ wpc[w] = "release" /\ ENABLED WRelease(w)
    /\ \A d \in DaemonThreads :
         dl_lock = d =>
           \/ dpc[d] = "pop" /\ (Len(popLog) < MaxPops => ENABLED DPop(d))
           \/ dpc[d] \in {"release", "raise"} /\ ENABLED DRelease(d)
    /\ cl_lock \in {Free} \cup Workers /\ dl_lock \in {Free} \cup DaemonThreads
    /\ mpc = "register" => cl_lock = Free /\ dl_lock = Free
    /\ \A w \in Workers : wpc[w] = "acquire" /\ cl_lock = Free => ENABLED WAcquire(w)
    /\ \A d \in DaemonThreads : dpc[d] = "acquire" /\ dl_lock = Free => ENABLED DAcquire(d)

\* each lock is held by one thread while the other thread of its kind waits
\* for it
C40_Witness ==
    /\ cl_lock = 1 /\ wpc[2] = "acquire"
    /\ dl_lock = 1 /\ dpc[2] = "acquire"

====
